---- MODULE Spec2Model ----
(***************************************************************************)
(* DocuQuiz: the quality-gated MCQ pipeline                                *)
(*   src/src/mcq_models.py             the records and their derived parts *)
(*   src/src/agents/mcq_agents.py      generation, critique, validation    *)
(*   src/src/agents/mcq_orchestrator.py  the run over the four stages      *)
(*                                                                         *)
(* Representation.                                                         *)
(*  - A Python value read from JSON or from a fragment is a tagged record: *)
(*    t is "str", "text", "int", "num", "nan", "null", "list" or "missing" *)
(*    (the key is absent), and each tag that carries a payload keeps it in *)
(*    a field of its own (s, c, n, x, l).                                  *)
(*  - A Python string is "str" with a TLA+ string where the code only      *)
(*    compares it (labels, names, enum values), and "text" with a sequence *)
(*    of one-character strings where the code measures or slices it        *)
(*    (question, explanation); a fragment text is such a sequence.         *)
(*  - A float is [k |-> "num", x |-> n] with n in SIXTHS of a point        *)
(*    (7.0 is 42), or [k |-> "nan", x |-> 0].  The modelled scores are     *)
(*    multiples of half a point, so every sum and the division by 3.0 of   *)
(*    overall_score are exact, in the code's doubles as well as here.      *)
(*  - Python lists are sequences; Python position i is index i + 1.        *)
(***************************************************************************)
EXTENDS Integers, Sequences, FiniteSets, TLC

VARIABLES
    pc,              \* where the modelled call stands
    context_chunks,  \* the fragments the stages work on
    mcqs,            \* the MCQs generated / given
    critiques,       \* critiques built so far (critique_mcqs' local list)
    validations,     \* the validation records
    result,          \* the MCQGenerationResult built, or NoResult
    llm_log,         \* every text-generation call made, in order, with its response
    stage_log,       \* the stages invoked, in order
    hash_seed,       \* the string hash seed of the process, as far as the process has
                     \* shown it: the iteration order of each set of labels written
    call_args,       \* the arguments of the constructor or batch call under way
    results,         \* the results a batch, or a series of runs, has collected
    success_rate     \* the success rate the batch summary reports, or NoRate

vars == <<pc, context_chunks, mcqs, critiques, validations, result, llm_log, stage_log,
          hash_seed, call_args, results, success_rate>>

\* Largest number of items in one generation response, and longest list
\* handed to a stage called on its own.
MaxMcqs == 2

----------------------------------------------------------------------------
(* Python values *)

JStr(s) == [t |-> "str", s |-> s]
JText(c) == [t |-> "text", c |-> c]
JInt(n) == [t |-> "int", n |-> n]
JNum(x) == [t |-> "num", x |-> x]
JList(l) == [t |-> "list", l |-> l]
JNaN == [t |-> "nan"]
JNull == [t |-> "null"]
JMissing == [t |-> "missing"]

\* A Python string is written "str" where the code only compares it (a
\* label, a file name, an enum value) and "text", a sequence of characters,
\* where the code measures, trims or converts it.  Chars gives the characters
\* of either; of a "str", for the strings this module writes that way.
StrChars(s) ==
    CASE s = "" -> <<>>
      [] s \in {"A", "B", "C", "D", "E", "0", "1", "9"} -> <<s>>
      [] s = "a.pdf" -> <<"a", ".", "p", "d", "f">>
      [] s = "b.pdf" -> <<"b", ".", "p", "d", "f">>
      [] s = "high" -> <<"h", "i", "g", "h">>
      [] s = "trivial" -> <<"t", "r", "i", "v", "i", "a", "l">>
      [] s = "extreme" -> <<"e", "x", "t", "r", "e", "m", "e">>
      [] s = "easy" -> <<"e", "a", "s", "y">>
      [] s = "medium" -> <<"m", "e", "d", "i", "u", "m">>
      [] s = "hard" -> <<"h", "a", "r", "d">>
      [] s = "nan" -> <<"n", "a", "n">>
      [] s = "9.5" -> <<"9", ".", "5">>
      [] s = " 9 " -> <<" ", "9", " ">>
Chars(x) == IF x.t = "str" THEN StrChars(x.s) ELSE x.c

\* dict.get(key, default)
Get(val, default) == IF val.t = "missing" THEN default ELSE val

\* bool(x)
Truthy(x) ==
    CASE x.t = "null" -> FALSE
      [] x.t = "str" -> x.s # ""
      [] x.t = "text" -> x.c # <<>>
      [] x.t = "int" -> x.n # 0
      [] x.t = "num" -> x.x # 0
      [] x.t = "list" -> x.l # <<>>
      [] OTHER -> TRUE

\* str(x)
PyStr(x) ==
    CASE x.t = "null" -> "None"
      [] x.t = "int" -> ToString(x.n)
      [] OTHER -> x.s

\* list[i] with Python's negative indices; the caller checks the range
PyIndex(seq, i) == IF i >= 0 THEN seq[i + 1] ELSE seq[Len(seq) + i + 1]

\* the characters str.strip() removes, of those a string of this module can
\* hold: the four separators 0x1c to 0x1f, and blank, tab, newline, carriage
\* return, form feed, vertical tab 0x0b, next line 0x85, no-break space 0xa0
Separators == {"", "", "", ""}
Whitespace == {" ", "\t", "\n", "\r", "\f", "", "", " "} \cup Separators

RECURSIVE LStripOf(_, _)
LStripOf(s, set) == IF s # <<>> /\ Head(s) \in set THEN LStripOf(Tail(s), set) ELSE s

RECURSIVE RStripOf(_, _)
RStripOf(s, set) ==
    IF s # <<>> /\ s[Len(s)] \in set THEN RStripOf(SubSeq(s, 1, Len(s) - 1), set) ELSE s

LStrip(s) == LStripOf(s, Whitespace)
RStrip(s) == RStripOf(s, Whitespace)

\* str.strip()
Strip(s) == RStrip(LStrip(s))

(* floats, in sixths of a point; an infinity carries its sign in x *)
Points(n) == 6 * n
F(n) == [k |-> "num", x |-> n]
NaN == [k |-> "nan", x |-> 0]
Inf(sign) == [k |-> "inf", x |-> sign]
FLt(a, b) ==
    /\ a.k # "nan" /\ b.k # "nan"
    /\ IF a.k = "inf" THEN a.x < 0 /\ ~(b.k = "inf" /\ b.x < 0)
       ELSE IF b.k = "inf" THEN b.x > 0 ELSE a.x < b.x
FGe(a, b) == a.k # "nan" /\ b.k # "nan" /\ ~FLt(a, b)
FAdd(a, b) ==
    CASE a.k = "nan" \/ b.k = "nan" -> NaN
      [] a.k = "inf" /\ b.k = "inf" -> IF a.x = b.x THEN a ELSE NaN
      [] a.k = "inf" -> a
      [] b.k = "inf" -> b
      [] OTHER -> F(a.x + b.x)
FDiv3(a) == IF a.k = "num" THEN F(a.x \div 3) ELSE a

----------------------------------------------------------------------------
(* The text-generation service's answer: the call raises, or returns text. *)
(* The code searches the raw text for two markers, three backquotes        *)
(* followed by json and three backquotes alone, and cuts the text at them, *)
(* wherever they stand.  Text is therefore the sequence of its markers and *)
(* of the runs of text around them.  A run that is one complete JSON value *)
(* is the Json token of that value, so no string of a Json token holds a   *)
(* marker.  A JSON value that does hold a marker inside one of its strings *)
(* is to the code a text with that marker in it: its runs are Piece, text  *)
(* that is no JSON value on its own, unless the cut leaves a value (the    *)
(* string that reads marker, {}, marker leaves the run {}).  Prose is any  *)
(* other text that is no JSON value.                                       *)

NoValue == [j |-> "none"]
Prose == [tok |-> "prose", val |-> NoValue]
Piece == [tok |-> "piece", val |-> NoValue]
FenceJson == [tok |-> "fence_json", val |-> NoValue]
Fence == [tok |-> "fence", val |-> NoValue]
Json(val) == [tok |-> "json", val |-> val]

ServiceError == [kind |-> "error", tokens |-> <<>>]
Text(tokens) == [kind |-> "text", tokens |-> tokens]

\* position of the first token equal to tok, 0 when there is none
FirstTok(tokens, tok) ==
    IF \E i \in 1..Len(tokens) : tokens[i] = tok
    THEN CHOOSE i \in 1..Len(tokens) :
            tokens[i] = tok /\ \A j \in 1..(i - 1) : tokens[j] # tok
    ELSE 0

\* text.split(tok)[0]
BeforeTok(tokens, tok) ==
    IF FirstTok(tokens, tok) = 0 THEN tokens
    ELSE SubSeq(tokens, 1, FirstTok(tokens, tok) - 1)

\* text.split(tok)[1], for a text that holds tok
AfterTok(tokens, tok) ==
    BeforeTok(SubSeq(tokens, FirstTok(tokens, tok) + 1, Len(tokens)), tok)

\* the json fence marker also holds the bare fence marker
IsFence(t) == t = Fence \/ t = FenceJson

FirstFence(tokens) ==
    IF \E i \in 1..Len(tokens) : IsFence(tokens[i])
    THEN CHOOSE i \in 1..Len(tokens) :
            IsFence(tokens[i]) /\ \A j \in 1..(i - 1) : ~IsFence(tokens[j])
    ELSE 0

BeforeFence(tokens) ==
    IF FirstFence(tokens) = 0 THEN tokens
    ELSE SubSeq(tokens, 1, FirstFence(tokens) - 1)

\* mutant: a lenient extraction that keeps the JSON value and drops what is around it
ExtractJsonLenient(tokens) ==
    SelectSeq(tokens, LAMBDA t : t.tok = "json")

\* Extract JSON if wrapped in code blocks
ExtractJson(tokens) ==
    IF FirstTok(tokens, FenceJson) # 0
    THEN BeforeFence(AfterTok(tokens, FenceJson))
    ELSE IF FirstTok(tokens, Fence) # 0
         THEN BeforeTok(AfterTok(tokens, Fence), Fence)
         ELSE tokens

\* json.loads raises unless the text is exactly one JSON value
JsonLoadsRaises(tokens) == ~(Len(tokens) = 1 /\ tokens[1].tok = "json")
JsonLoads(tokens) == tokens[1].val

----------------------------------------------------------------------------
(* Fragments, as MCQRetrievalAgent.retrieve_context hands them on *)

Chunk(id, source, text) == [chunk_id |-> id, source |-> source, text |-> text]

SnippetLen == 200
Ellipsis == <<".", ".", ".">>

\* the first 200 characters of the fragment text, then three dots
Snippet(text) ==
    SubSeq(text, 1, IF Len(text) < SnippetLen THEN Len(text) ELSE SnippetLen) \o Ellipsis

----------------------------------------------------------------------------
(* MCQGenerationAgent.generate_mcqs *)

DifficultyLevels == {"easy", "medium", "hard"}

\* an item of the parsed array that is a JSON object
Item(question, options, correct_answer, explanation, difficulty, chunk_index) ==
    [j |-> "object", question |-> question, options |-> options,
     correct_answer |-> correct_answer, explanation |-> explanation,
     difficulty |-> difficulty, chunk_index |-> chunk_index]

\* an item that is not an object (a JSON string)
StringItem == [j |-> "string"]

\* an element of an options list: a JSON object with the keys it carries, or
\* a value of another kind; a key that is absent has no value to read
Opt(label, text) ==
    [j |-> "object", keys |-> {"label", "text"}, label |-> label, text |-> text]
OptNoText(label) == [j |-> "object", keys |-> {"label"}, label |-> label, text |-> ""]
OptNoLabel(text) == [j |-> "object", keys |-> {"text"}, label |-> "", text |-> text]
StringOpt == [j |-> "string", keys |-> {}, label |-> "", text |-> ""]
MCQOption(label, text, is_correct) ==
    [label |-> label, text |-> text, is_correct |-> is_correct]

\* mcq_data.get('chunk_index', 0)
ChunkIdx(item) == Get(item.chunk_index, JInt(0))

\* chunk_idx < len(context_chunks); the caller excludes the values that
\* cannot be compared with an int.  A comparison with NaN is False.
IdxBelow(idx, chunks) ==
    CASE idx.t = "int" -> idx.n < Len(chunks)
      [] idx.t = "num" -> idx.x < Points(Len(chunks))
      [] OTHER -> FALSE

\* the options of an item are iterated: a list of option objects, or a
\* string without characters
OptionsOf(item) == IF item.options.t = "list" THEN item.options.l ELSE <<>>

\* opt["label"], opt["text"] of one element raise: a string has no string
\* index (TypeError), an object may lack the key (KeyError)
OptionRaises(opt) ==
    \/ opt.j # "object"
    \/ "label" \notin opt.keys
    \/ "text" \notin opt.keys

\* iterating mcq_data["options"] and reading opt["label"], opt["text"] raises
OptionsRaise(options) ==
    CASE options.t = "list" -> \E n \in 1..Len(options.l) : OptionRaises(options.l[n])
      [] options.t = "str" -> options.s # ""              \* a character has no key
      [] options.t = "text" -> options.c # <<>>
      [] OTHER -> TRUE                                     \* KeyError, TypeError

\* what converting one item raises inside the try block
ItemRaises(item, chunks) ==
    \/ item.j # "object"                                   \* .get: AttributeError
    \/ ChunkIdx(item).t \notin {"int", "num", "nan"}       \* <: TypeError
    \/ (ChunkIdx(item).t = "num" /\ IdxBelow(ChunkIdx(item), chunks))
                                                           \* list index: TypeError
    \/ (ChunkIdx(item).t = "int" /\ ChunkIdx(item).n < 0 - Len(chunks))
                                                           \* IndexError
    \/ OptionsRaise(item.options)
    \/ item.correct_answer.t = "missing"                   \* KeyError
    \/ item.question.t = "missing"                         \* KeyError
    \/ item.explanation.t = "missing"                      \* KeyError
    \/ Get(item.difficulty, JStr("medium")).t # "str"      \* DifficultyLevel(): ValueError
    \/ Get(item.difficulty, JStr("medium")).s \notin DifficultyLevels

\* context_chunks[chunk_idx] if chunk_idx < len(context_chunks) else context_chunks[0]
SourceChunk(item, chunks) ==
    IF IdxBelow(ChunkIdx(item), chunks)
    THEN PyIndex(chunks, ChunkIdx(item).n)
    ELSE chunks[1]

\* opt["label"] == mcq_data["correct_answer"]
IsCorrect(label, correct_answer) ==
    correct_answer.t = "str" /\ label = correct_answer.s

\* one item converted; i is the item's Python position
BuildMcq(item, i, chunks) ==
    [question |-> item.question,
     options |-> [n \in 1..Len(OptionsOf(item)) |->
                    MCQOption(OptionsOf(item)[n].label, OptionsOf(item)[n].text,
                              IsCorrect(OptionsOf(item)[n].label, item.correct_answer))],
     correct_answer |-> item.correct_answer.s,
     explanation |-> item.explanation,
     difficulty |-> Get(item.difficulty, JStr("medium")).s,
     chunk_id |-> PyStr(SourceChunk(item, chunks).chunk_id),
     source_filename |-> SourceChunk(item, chunks).source,
     context_snippet |-> Snippet(SourceChunk(item, chunks).text),
     generation_order |-> i]

\* mutant: the try block inside the loop, so that a bad item is skipped
ParseMcqsPartial(chunks, resp) ==
    IF resp.kind = "error" THEN <<>>
    ELSE IF JsonLoadsRaises(ExtractJson(resp.tokens)) THEN <<>>
    ELSE LET data == JsonLoads(ExtractJson(resp.tokens)) IN
         IF data.j # "array" THEN <<>>
         ELSE LET kept == SelectSeq(data.items, LAMBDA it : ~ItemRaises(it, chunks))
              IN [n \in 1..Len(kept) |-> BuildMcq(kept[n], n - 1, chunks)]

\* what follows a service answer: the try block of generate_mcqs
ParseMcqs(chunks, resp) ==
    IF resp.kind = "error" THEN <<>>
    ELSE IF JsonLoadsRaises(ExtractJson(resp.tokens)) THEN <<>>
    ELSE LET data == JsonLoads(ExtractJson(resp.tokens)) IN
         IF data.j # "array" THEN <<>>
         ELSE IF \E n \in 1..Len(data.items) : ItemRaises(data.items[n], chunks)
              THEN <<>>
              ELSE [n \in 1..Len(data.items) |-> BuildMcq(data.items[n], n - 1, chunks)]

\* whether generate_mcqs calls the service at all
\* mutant: the call is made whatever the fragment list holds
GenerationCallsAlways(chunks) == TRUE

GenerationCalls(chunks) == chunks # <<>>

\* generate_mcqs(context_chunks, ...) when the service answers resp
GenerateMcqs(chunks, resp) ==
    IF ~GenerationCalls(chunks) THEN <<>> ELSE ParseMcqs(chunks, resp)

----------------------------------------------------------------------------
(* CritiqueResult and MCQCriticAgent.critique_mcqs *)

\* __post_init__: the mean of the three scores
OverallScore(clarity, correctness, grounding) ==
    FDiv3(FAdd(FAdd(clarity, correctness), grounding))

\* the dataclass fields as the generated __init__ assigns them
CritiqueFields(mcq_index, clarity, correctness, grounding, difficulty, issues, suggestions, overall) ==
    [mcq_index |-> mcq_index,
     clarity_score |-> clarity,
     correctness_score |-> correctness,
     grounding_score |-> grounding,
     difficulty_assessment |-> difficulty,
     issues |-> issues,
     suggestions |-> suggestions,
     overall_score |-> overall]

\* mutant: the value passed for overall_score is kept
CritiquePostInitKeeps(self) == self

\* __post_init__
CritiquePostInit(self) ==
    [self EXCEPT !.overall_score =
        OverallScore(self.clarity_score, self.correctness_score, self.grounding_score)]

\* the constructor as the agents call it, overall_score left at its default
CritiqueResult(mcq_index, clarity, correctness, grounding, difficulty, issues, suggestions) ==
    CritiquePostInit(CritiqueFields(mcq_index, clarity, correctness, grounding, difficulty,
                                    issues, suggestions, F(0)))

\* the object the critique prompt asks for
CritiqueData(clarity, correctness, grounding, difficulty, issues, suggestions) ==
    [j |-> "object", clarity_score |-> clarity, correctness_score |-> correctness,
     grounding_score |-> grounding, difficulty_assessment |-> difficulty,
     issues |-> issues, suggestions |-> suggestions]

DefaultScore == F(Points(5))
FallbackScore == F(Points(7))
NoGrounding == F(Points(0))

(* float() of a string: white space around it is dropped, then an optional  *)
(* sign, then nan, inf or infinity in any case, or a decimal numeral: digits *)
(* with single underscores between them, an optional point, an optional     *)
(* exponent. float() does not count the four separators as white space.     *)
FloatSpace == Whitespace \ Separators
FloatStrip(s) == RStripOf(LStripOf(s, FloatSpace), FloatSpace)

Digits == <<"0", "1", "2", "3", "4", "5", "6", "7", "8", "9">>
DigitChars == {Digits[d] : d \in 1..10}
DigitVal(ch) == (CHOOSE d \in 1..10 : Digits[d] = ch) - 1

\* str.lower() on the letters the special values are spelled with
Lower(ch) ==
    CASE ch = "N" -> "n" [] ch = "A" -> "a" [] ch = "I" -> "i"
      [] ch = "F" -> "f" [] ch = "T" -> "t" [] ch = "Y" -> "y"
      [] OTHER -> ch
LowerAll(s) == [i \in 1..Len(s) |-> Lower(s[i])]

Unsigned(s) == IF s # <<>> /\ s[1] \in {"+", "-"} THEN Tail(s) ELSE s
SignOf(s) == IF s # <<>> /\ s[1] = "-" THEN 0 - 1 ELSE 1

\* position of the first character of s that lies in set, 0 when there is none
FirstIn(s, set) ==
    LET hits == {i \in 1..Len(s) : s[i] \in set}
    IN IF hits = {} THEN 0 ELSE CHOOSE i \in hits : \A j \in hits : i <= j

\* the part of s before position p, all of s when p is 0, and the part after
Before(s, p) == IF p = 0 THEN s ELSE SubSeq(s, 1, p - 1)
After(s, p) == IF p = 0 THEN <<>> ELSE SubSeq(s, p + 1, Len(s))

\* digits, with single underscores allowed between two digits
IsDigitPart(s) ==
    /\ s # <<>>
    /\ \A i \in 1..Len(s) :
          \/ s[i] \in DigitChars
          \/ /\ s[i] = "_" /\ 1 < i /\ i < Len(s)
             /\ s[i - 1] \in DigitChars /\ s[i + 1] \in DigitChars

\* a numeral before its exponent: digits, digits and a point, a point and
\* digits, or digits on both sides of a point
IsMantissa(m) ==
    LET p == FirstIn(m, {"."})
        whole == Before(m, p)
        frac == After(m, p)
    IN IF p = 0 THEN IsDigitPart(m)
       ELSE \/ whole = <<>> /\ IsDigitPart(frac)
            \/ IsDigitPart(whole) /\ (frac = <<>> \/ IsDigitPart(frac))

IsNumeral(u) ==
    LET e == FirstIn(u, {"e", "E"})
    IN /\ IsMantissa(Before(u, e))
       /\ e # 0 => IsDigitPart(Unsigned(After(u, e)))

IsNanWord(u) == Len(u) = 3 /\ LowerAll(u) = <<"n", "a", "n">>
IsInfWord(u) ==
    \/ Len(u) = 3 /\ LowerAll(u) = <<"i", "n", "f">>
    \/ Len(u) = 8 /\ LowerAll(u) = <<"i", "n", "f", "i", "n", "i", "t", "y">>

\* whether float() accepts the string with characters c
IsFloatText(c) ==
    LET u == Unsigned(FloatStrip(c)) IN IsNanWord(u) \/ IsInfWord(u) \/ IsNumeral(u)

\* the whole number the digits of s spell, underscores skipped
RECURSIVE DigitsValue(_)
DigitsValue(s) ==
    IF s = <<>> THEN 0
    ELSE IF s[Len(s)] = "_" THEN DigitsValue(SubSeq(s, 1, Len(s) - 1))
    ELSE 10 * DigitsValue(SubSeq(s, 1, Len(s) - 1)) + DigitVal(s[Len(s)])

RECURSIVE Pow10(_)
Pow10(n) == IF n = 0 THEN 1 ELSE 10 * Pow10(n - 1)

\* the value of a numeral in sixths of a point; a numeral that falls between
\* two sixths is no score of this module and has no value here
NumeralSixths(u) ==
    LET e == FirstIn(u, {"e", "E"})
        m == Before(u, e)
        p == FirstIn(m, {"."})
        frac == SelectSeq(After(m, p), LAMBDA ch : ch # "_")
        digits == DigitsValue(Before(m, p) \o frac)
        exp == SignOf(After(u, e)) * DigitsValue(Unsigned(After(u, e)))
        shift == exp - Len(frac)
    IN CASE shift >= 0 -> Points(digits) * Pow10(shift)
         [] shift < 0 /\ Points(digits) % Pow10(0 - shift) = 0 ->
                Points(digits) \div Pow10(0 - shift)

\* float() of the string with characters c, for a string float() accepts
TextToFloat(c) ==
    LET s == FloatStrip(c)
        u == Unsigned(s)
    IN CASE IsNanWord(u) -> NaN
         [] IsInfWord(u) -> Inf(SignOf(s))
         [] OTHER -> F(SignOf(s) * NumeralSixths(u))

\* float(x) raises on None, on a list and on a string that spells no number
FloatRaises(x) ==
    CASE x.t \in {"num", "int", "nan"} -> FALSE
      [] x.t \in {"text", "str"} -> ~IsFloatText(Chars(x))
      [] OTHER -> TRUE
ToFloat(x) ==
    CASE x.t = "nan" -> NaN
      [] x.t = "int" -> F(Points(x.n))
      [] x.t = "num" -> F(x.x)
      [] x.t \in {"text", "str"} -> TextToFloat(Chars(x))

\* the fragment the MCQ is critiqued against; None is NoChunk
NoChunk == [chunk_id |-> JNull, source |-> JNull, text |-> <<>>, none |-> TRUE]

FirstMatch(mcq, chunks) ==
    IF \E n \in 1..Len(chunks) : PyStr(chunks[n].chunk_id) = mcq.chunk_id
    THEN CHOOSE n \in 1..Len(chunks) :
            /\ PyStr(chunks[n].chunk_id) = mcq.chunk_id
            /\ \A m \in 1..(n - 1) : PyStr(chunks[m].chunk_id) # mcq.chunk_id
    ELSE 0

\* mutant: a fragment id that matches nothing is a failed lookup
CritiqueSourceNoFallback(mcq, chunks) ==
    IF FirstMatch(mcq, chunks) # 0 THEN chunks[FirstMatch(mcq, chunks)]
    ELSE NoChunk

\* next((chunk for chunk in context_chunks if str(id) == mcq.chunk_id),
\*      context_chunks[0] if context_chunks else None)
CritiqueSource(mcq, chunks) ==
    IF FirstMatch(mcq, chunks) # 0 THEN chunks[FirstMatch(mcq, chunks)]
    ELSE IF chunks # <<>> THEN chunks[1]
    ELSE NoChunk

\* mutant: the loop body goes on to the service call without a source
CritiqueCallsAlways(mcq, chunks) == TRUE

\* whether the loop body reaches the service call for this MCQ
CritiqueCalls(mcq, chunks) == CritiqueSource(mcq, chunks) # NoChunk

\* mutant: positions counted from 1
BasicCritiqueFromOne(i, mcq) ==
    CritiqueResult(i + 1, DefaultScore, DefaultScore, NoGrounding, mcq.difficulty,
                   <<"Could not find source context for verification">>,
                   <<"Verify MCQ against original source">>)

\* the critique when no source fragment is found
BasicCritique(i, mcq) ==
    CritiqueResult(i, DefaultScore, DefaultScore, NoGrounding, mcq.difficulty,
                   <<"Could not find source context for verification">>,
                   <<"Verify MCQ against original source">>)

\* mutant: the except branch reuses the default of a missing score
FallbackCritiqueDefault(i, mcq) ==
    CritiqueResult(i, DefaultScore, DefaultScore, DefaultScore, "medium",
                   <<"Could not complete full critique">>,
                   <<"Manual review recommended">>)

\* mutant: the except branch gives the grounding of the basic critique
FallbackCritiqueNoGrounding(i, mcq) ==
    CritiqueResult(i, FallbackScore, FallbackScore, NoGrounding, mcq.difficulty,
                   <<"Could not complete full critique">>,
                   <<"Manual review recommended">>)

\* the except branch
FallbackCritique(i, mcq) ==
    CritiqueResult(i, FallbackScore, FallbackScore, FallbackScore, mcq.difficulty,
                   <<"Could not complete full critique">>,
                   <<"Manual review recommended">>)

\* what the try block of the loop body raises on
CritiqueRaises(resp) ==
    \/ resp.kind = "error"
    \/ JsonLoadsRaises(ExtractJson(resp.tokens))
    \/ LET data == JsonLoads(ExtractJson(resp.tokens)) IN
        \/ data.j # "object"
        \/ FloatRaises(Get(data.clarity_score, JNum(Points(5))))
        \/ FloatRaises(Get(data.correctness_score, JNum(Points(5))))
        \/ FloatRaises(Get(data.grounding_score, JNum(Points(5))))
        \/ Get(data.difficulty_assessment, JStr("medium")).t # "str"
        \/ Get(data.difficulty_assessment, JStr("medium")).s \notin DifficultyLevels

\* the critique of a call that answered resp
ParseCritique(i, mcq, resp) ==
    IF CritiqueRaises(resp) THEN FallbackCritique(i, mcq)
    ELSE LET data == JsonLoads(ExtractJson(resp.tokens)) IN
         CritiqueResult(i,
            ToFloat(Get(data.clarity_score, JNum(Points(5)))),
            ToFloat(Get(data.correctness_score, JNum(Points(5)))),
            ToFloat(Get(data.grounding_score, JNum(Points(5)))),
            Get(data.difficulty_assessment, JStr("medium")).s,
            Get(data.issues, JList(<<>>)).l,
            Get(data.suggestions, JList(<<>>)).l)

\* one pass of the loop body over the MCQ at Python position i
CritiqueOne(i, mcq, chunks, resp) ==
    IF ~CritiqueCalls(mcq, chunks) THEN BasicCritique(i, mcq)
    ELSE ParseCritique(i, mcq, resp)

----------------------------------------------------------------------------
(* ValidationResult and MCQValidationAgent *)

Err(msg, arg) == [msg |-> msg, arg |-> arg]

MinTextLen == 10
NumOptions == 4
ExpectedLabels == {"A", "B", "C", "D"}
GroundingMin == F(Points(6))
HallucinationMax == F(Points(5))
RevisionMin == F(Points(7))

\* mutant: the length of the text as given, not of the trimmed text
TooShortUntrimmed(x) == ~Truthy(x) \/ Len(x.c) < MinTextLen

\* x.strip() raises when x is neither a string nor falsy
StripRaises(x) == Truthy(x) /\ x.t \notin {"text", "str"}

\* not x or len(x.strip()) < 10
TooShort(x) == ~Truthy(x) \/ Len(Strip(Chars(x))) < MinTextLen

CorrectOptions(mcq) == {n \in 1..Len(mcq.options) : mcq.options[n].is_correct}
ActualLabels(mcq) == {mcq.options[n].label : n \in 1..Len(mcq.options)}

\* The text of a set of strings lists its elements in the iteration order of
\* the set: the order of the slots the strings fell into, which follows the
\* string hashes and so the seed the interpreter drew when the process
\* started.  Over the seeds, a set built by the same insertions iterates in
\* any order of its elements; within one process it iterates in one order.
\* The seed is kept as the orders it has produced so far, one per sequence
\* of insertions, and is drawn further when a new set is written.  The
\* orders of two different sets are drawn independently of each other: every
\* pair of orders one process produces is among the pairs drawn, and so are
\* pairs that no seed produces.
NoOrders == {}

RECURSIVE Distinct(_)
Distinct(seq) ==
    IF seq = <<>> THEN <<>>
    ELSE LET front == Distinct(SubSeq(seq, 1, Len(seq) - 1))
             last == seq[Len(seq)]
         IN IF \E n \in 1..Len(front) : front[n] = last THEN front
            ELSE Append(front, last)

\* {opt.label for opt in mcq.options}: the labels in the order of their
\* first insertion
Inserted(mcq) == Distinct([n \in 1..Len(mcq.options) |-> mcq.options[n].label])

\* the orders in which a set built by these insertions can iterate
Orders(labels) ==
    {order \in [1..Len(labels) -> {labels[n] : n \in 1..Len(labels)}] :
        \A m, n \in 1..Len(labels) : m # n => order[m] # order[n]}

\* the labels of the options in the order the set of them is written out
LabelsText(mcq, seed) == (CHOOSE e \in seed : e.labels = Inserted(mcq)).order

\* "Invalid option labels: {...}"
LabelsErr(labels) == [msg |-> "Invalid option labels", labels |-> labels]

\* _check_format raises instead of returning
FormatRaises(mcq) == StripRaises(mcq.question) \/ StripRaises(mcq.explanation)

\* the errors _check_format appends, in order
FormatErrors(mcq, seed) ==
    (IF TooShort(mcq.question) THEN <<Err("Question is too short or empty", 0)>> ELSE <<>>)
    \o (IF Len(mcq.options) # NumOptions
        THEN <<Err("Must have exactly 4 options, found", Len(mcq.options))>> ELSE <<>>)
    \o (IF Cardinality(CorrectOptions(mcq)) # 1
        THEN <<Err("Must have exactly 1 correct answer, found",
                   Cardinality(CorrectOptions(mcq)))>> ELSE <<>>)
    \o (IF TooShort(mcq.explanation)
        THEN <<Err("Explanation is too short or empty", 0)>> ELSE <<>>)
    \o (IF ActualLabels(mcq) # ExpectedLabels
        THEN <<LabelsErr(LabelsText(mcq, seed))>> ELSE <<>>)

\* _check_format's return value
CheckFormat(mcq, seed) == FormatErrors(mcq, seed) = <<>>

\* a field holding None where an enum member is expected
NoDifficulty == "None"

\* the errors _check_metadata appends, in order
MetadataErrors(mcq) ==
    (IF mcq.chunk_id = "" THEN <<Err("Missing chunk_id", 0)>> ELSE <<>>)
    \o (IF ~Truthy(mcq.source_filename) THEN <<Err("Missing source_filename", 0)>> ELSE <<>>)
    \o (IF mcq.difficulty = NoDifficulty
        THEN <<Err("Missing difficulty level", 0)>> ELSE <<>>)

\* _check_metadata's return value
CheckMetadata(mcq) == MetadataErrors(mcq) = <<>>

\* critiques[i] if i < len(critiques) else None
HasCritique(i, crits) == i < Len(crits)

\* mutant: a score equal to the threshold counts as low
IsContextGroundedInclusive(i, crits) ==
    ~(/\ HasCritique(i, crits)
      /\ crits[i + 1].grounding_score.k = "num"
      /\ crits[i + 1].grounding_score.x <= GroundingMin.x)

IsContextGrounded(i, crits) ==
    ~(HasCritique(i, crits) /\ FLt(crits[i + 1].grounding_score, GroundingMin))

\* mutant: the hallucination test reuses the grounding threshold
HasHallucinationAtGroundingMin(i, crits) ==
    HasCritique(i, crits) /\ FLt(crits[i + 1].grounding_score, GroundingMin)

HasHallucination(i, crits) ==
    HasCritique(i, crits) /\ FLt(crits[i + 1].grounding_score, HallucinationMax)

\* mutant: a low grounding score clears the flag without recording an error
GroundingErrorsHallucinationOnly(i, crits) ==
    IF HasHallucination(i, crits)
    THEN <<Err("Potential hallucination detected", 0)>> ELSE <<>>

GroundingErrors(i, crits) ==
    (IF ~IsContextGrounded(i, crits)
     THEN <<Err("Low grounding score", crits[i + 1].grounding_score.x)>> ELSE <<>>)
    \o (IF HasHallucination(i, crits)
        THEN <<Err("Potential hallucination detected", 0)>> ELSE <<>>)

ValidationErrors(i, mcq, crits, seed) ==
    FormatErrors(mcq, seed) \o MetadataErrors(mcq) \o GroundingErrors(i, crits)

\* mutant: a strict comparison with the revision threshold
StatusStrict(errors, i, crits) ==
    IF errors = <<>> THEN "VALID"
    ELSE IF HasCritique(i, crits) /\ FLt(RevisionMin, crits[i + 1].overall_score)
         THEN "NEEDS_REVISION"
         ELSE "INVALID"

\* Determine overall status
Status(errors, i, crits) ==
    IF errors = <<>> THEN "VALID"
    ELSE IF HasCritique(i, crits) /\ FGe(crits[i + 1].overall_score, RevisionMin)
         THEN "NEEDS_REVISION"
         ELSE "INVALID"

\* mutant: the validation looks at the critique of the position after
ValidateOneShifted(i, mcq, crits, seed) ==
    [mcq_index |-> i,
     status |-> Status(ValidationErrors(i + 1, mcq, crits, seed), i + 1, crits),
     is_context_grounded |-> IsContextGrounded(i + 1, crits),
     is_properly_formatted |-> CheckFormat(mcq, seed),
     has_required_metadata |-> CheckMetadata(mcq),
     has_hallucination |-> HasHallucination(i + 1, crits),
     validation_errors |-> ValidationErrors(i + 1, mcq, crits, seed)]

\* one pass of the loop body of validate_mcqs, for an MCQ it does not raise on
ValidateOne(i, mcq, crits, seed) ==
    [mcq_index |-> i,
     status |-> Status(ValidationErrors(i, mcq, crits, seed), i, crits),
     is_context_grounded |-> IsContextGrounded(i, crits),
     is_properly_formatted |-> CheckFormat(mcq, seed),
     has_required_metadata |-> CheckMetadata(mcq),
     has_hallucination |-> HasHallucination(i, crits),
     validation_errors |-> ValidationErrors(i, mcq, crits, seed)]

\* validate_mcqs raises when _check_format does on some MCQ
ValidateRaises(ms) == \E n \in 1..Len(ms) : FormatRaises(ms[n])

ValidateMcqs(ms, crits, seed) ==
    [n \in 1..Len(ms) |-> ValidateOne(n - 1, ms[n], crits, seed)]

\* the sets of labels validating these MCQs writes out, each as the sequence
\* of its insertions
Written(ms) == {Inserted(ms[n]) : n \in {k \in 1..Len(ms) : ActualLabels(ms[k]) # ExpectedLabels}}

\* the seed after validate_mcqs(ms), as far as shown: an order is drawn for
\* each set written for the first time in the process; a call that raises
\* returns no text
Draws(seed, ms) ==
    LET new == IF ValidateRaises(ms) THEN {}
               ELSE Written(ms) \ {e.labels : e \in seed}
    IN IF new = {} THEN {seed}
       ELSE {seed \cup {[labels |-> l, order |-> drawn[l]] : l \in new} :
                drawn \in {f \in [new -> UNION {Orders(l) : l \in new}] :
                             \A l \in new : f[l] \in Orders(l)}}

\* mutant: the status alone decides
IsValidStatusOnly(v) == v.status = "VALID"

\* ValidationResult.is_valid
IsValid(v) ==
    /\ v.status = "VALID"
    /\ v.is_context_grounded
    /\ v.is_properly_formatted
    /\ v.has_required_metadata
    /\ ~v.has_hallucination

----------------------------------------------------------------------------
(* MCQGenerationResult *)

\* validation and validation.is_valid(), for the MCQ at Python position i
ValidAt(i, vals) == i < Len(vals) /\ IsValid(vals[i + 1])

\* mutant: the loop runs over zip(mcqs, validations)
RECURSIVE AppendedZipped(_, _, _, _)
AppendedZipped(ms, vals, want, n) ==
    IF n = 0 THEN <<>>
    ELSE AppendedZipped(ms, vals, want, n - 1)
         \o (IF n <= Len(vals) /\ IsValid(vals[n]) = want THEN <<ms[n]>> ELSE <<>>)

\* the MCQs of ms[1..n] appended to the valid (want = TRUE) or invalid list
RECURSIVE Appended(_, _, _, _)
Appended(ms, vals, want, n) ==
    IF n = 0 THEN <<>>
    ELSE Appended(ms, vals, want, n - 1)
         \o (IF ValidAt(n - 1, vals) = want THEN <<ms[n]>> ELSE <<>>)

\* the constructor with __post_init__
MCQGenerationResult(query, ms, crits, vals) ==
    [query |-> query, mcqs |-> ms, critiques |-> crits, validations |-> vals,
     valid_mcqs |-> Appended(ms, vals, TRUE, Len(ms)),
     invalid_mcqs |-> Appended(ms, vals, FALSE, Len(ms))]

NoResult == [query |-> "", none |-> TRUE]

----------------------------------------------------------------------------
(* The values the environment is drawn from *)

\* every sequence over S of length at most n
SeqsUpTo(S, n) == UNION {[1..k -> S] : k \in 0..n}

QGood == <<"W", "h", "a", "t", " ", "i", "s", " ", "X", "?">>
QNine == <<"W", "h", "a", "t", " ", "i", "s", " ", "X">>
QPadded == <<" ", "W", "h", "a", "t", " ", "i", "s", " ", "X", "\n">>
QReturn == <<"\r", "W", "h", "a", "t", " ", "i", "s", " ", "X", "\f">>
EGood == <<"B", "e", "c", "a", "u", "s", "e", " ", "X", ".">>
EShort == <<"N", "o">>

Opts4 == <<Opt("A", "a"), Opt("B", "b"), Opt("C", "c"), Opt("D", "d")>>
\* three options, and four with repeated labels: both make the set {A, B}
Opts3 == <<Opt("A", "a"), Opt("B", "b"), Opt("A", "c")>>
OptsDup == <<Opt("A", "a"), Opt("A", "b"), Opt("B", "c"), Opt("B", "d")>>

\* fragments: TextChunker numbers the chunks of each document from 0, so two
\* documents share chunk ids; a match without the metadata yields None
F0a == Chunk(JInt(0), JStr("a.pdf"), <<"a", "l", "p", "h", "a">>)
F1a == Chunk(JInt(1), JStr("a.pdf"), <<"b", "e", "t", "a">>)
F0b == Chunk(JInt(0), JStr("b.pdf"), <<"g", "a", "m", "m", "a">>)
FNone == Chunk(JNull, JNull, <<"d", "e", "l", "t", "a">>)

ChunkLists == {<<>>, <<F0a>>, <<F0a, F1a>>, <<F1a, F0b>>, <<F0a, F0b>>, <<FNone>>}

Array(items) == [j |-> "array", items |-> items]

GoodItem(correct, difficulty, chunk_index) ==
    Item(JText(QGood), JList(Opts4), JStr(correct), JText(EGood), difficulty, chunk_index)

\* items of a run: two well-formed ones, one with a short question, one whose
\* question is a number, one with an unknown difficulty
RunItems ==
    { GoodItem("A", JStr("medium"), JInt(0)),
      GoodItem("B", JStr("hard"), JInt(1)),
      Item(JText(QNine), JList(Opts4), JStr("A"), JText(EGood), JMissing, JMissing),
      Item(JInt(7), JList(Opts4), JStr("A"), JText(EGood), JStr("easy"), JInt(0)),
      GoodItem("A", JStr("extreme"), JInt(0)) }

RunGenResponses ==
    {ServiceError, Text(<<Prose>>), Text(<<Prose, Json(Array(<<GoodItem("A", JStr("medium"), JInt(0))>>))>>),
     Text(<<FenceJson, Json(Array(<<GoodItem("A", JStr("medium"), JInt(0))>>)), Fence>>)}
    \cup {Text(<<Json(Array(items))>>) : items \in SeqsUpTo(RunItems, MaxMcqs)}

Scores(clarity, correctness, grounding) ==
    CritiqueData(clarity, correctness, grounding, JStr("hard"),
                 JList(<<"vague">>), JList(<<"rephrase">>))

RunCritiqueResponses ==
    { ServiceError,
      Text(<<Prose>>),
      Text(<<Json(Scores(JNum(Points(9)), JNum(Points(9)), JNum(Points(9))))>>),
      Text(<<Json(Scores(JNum(Points(9)), JNum(Points(9)), JNum(Points(5) + 3)))>>),
      Text(<<Json(Scores(JNum(Points(5)), JNum(Points(5)), JNum(Points(4))))>>),
      Text(<<Json(Scores(JNum(Points(9)), JNum(Points(9)), JNaN))>>) }

Query == "topic"

\* no success rate reported
NoRate == [none |-> TRUE]

\* a process that has started, has written no set of labels and has made no
\* batch or constructor call
FreshProcess ==
    /\ hash_seed = NoOrders
    /\ call_args = <<>>
    /\ results = <<>>
    /\ success_rate = NoRate

----------------------------------------------------------------------------
(* MCQOrchestrator.generate_mcqs: one run, a step per external call *)

EmptyResult == MCQGenerationResult(Query, <<>>, <<>>, <<>>)

Call(stage, index, source, resp) ==
    [stage |-> stage, index |-> index, source |-> source, response |-> resp]

Init ==
    /\ pc = "start"
    /\ context_chunks = <<>>
    /\ mcqs = <<>>
    /\ critiques = <<>>
    /\ validations = <<>>
    /\ result = NoResult
    /\ llm_log = <<>>
    /\ stage_log = <<>>
    /\ FreshProcess

\* mutant: no early return on an empty retrieval
RetrieveNoCheck ==
    /\ pc = "start"
    /\ \E chunks \in ChunkLists : context_chunks' = chunks
    /\ pc' = "generating"
    /\ stage_log' = Append(stage_log, "retrieval")
    /\ UNCHANGED <<mcqs, critiques, validations, result, llm_log>>
    /\ UNCHANGED <<hash_seed, call_args, results, success_rate>>

\* Step 1: retrieval returns one of the given lists; without context the
\* run for the query ends
RetrieveFrom(query, lists) ==
    /\ pc = "start"
    /\ \E chunks \in lists :
        /\ context_chunks' = chunks
        /\ IF chunks = <<>>
           THEN /\ pc' = "NO_CONTEXT"
                /\ result' = MCQGenerationResult(query, <<>>, <<>>, <<>>)
           ELSE pc' = "generating" /\ result' = result
    /\ stage_log' = Append(stage_log, "retrieval")
    /\ UNCHANGED <<mcqs, critiques, validations, llm_log>>
    /\ UNCHANGED <<hash_seed, call_args, results, success_rate>>

Retrieve == RetrieveFrom(Query, ChunkLists)

\* Step 2: the generation agent, with the answer of its one service call
GenerateWith(resp) ==
    /\ mcqs' = GenerateMcqs(context_chunks, resp)
    /\ llm_log' = IF GenerationCalls(context_chunks)
                  THEN Append(llm_log, Call("generation", 0, NoChunk, resp))
                  ELSE llm_log
    /\ stage_log' = Append(stage_log, "generation")

\* mutant: the run goes from generation straight to validation
GenerateThenValidate ==
    /\ pc = "generating"
    /\ \E resp \in RunGenResponses : GenerateWith(resp)
    /\ IF mcqs' = <<>>
       THEN pc' = "GENERATION_EMPTY" /\ result' = EmptyResult
       ELSE pc' = "validating" /\ result' = result
    /\ UNCHANGED <<context_chunks, critiques, validations>>
    /\ UNCHANGED <<hash_seed, call_args, results, success_rate>>

\* Step 2 with one of the given answers; without MCQs the run for the
\* query ends
GenerateFrom(query, resps) ==
    /\ pc = "generating"
    /\ \E resp \in resps : GenerateWith(resp)
    /\ IF mcqs' = <<>>
       THEN /\ pc' = "GENERATION_EMPTY"
            /\ result' = MCQGenerationResult(query, <<>>, <<>>, <<>>)
       ELSE pc' = "critiquing" /\ result' = result
    /\ UNCHANGED <<context_chunks, critiques, validations>>
    /\ UNCHANGED <<hash_seed, call_args, results, success_rate>>

Generate == GenerateFrom(Query, RunGenResponses)

\* the loop body of critique_mcqs for the next MCQ
CritiqueWith(resp) ==
    LET i == Len(critiques)
        mcq == mcqs[i + 1]
    IN /\ critiques' = Append(critiques, CritiqueOne(i, mcq, context_chunks, resp))
       /\ llm_log' = IF CritiqueCalls(mcq, context_chunks)
                     THEN Append(llm_log,
                                 Call("critique", i, CritiqueSource(mcq, context_chunks), resp))
                     ELSE llm_log
       /\ stage_log' = IF i = 0 THEN Append(stage_log, "critique") ELSE stage_log

\* mutant: a failed critique call is made a second time, once in a run
CritiqueRetriesOnce ==
    /\ pc = "critiquing"
    /\ \E resp \in RunCritiqueResponses :
        IF resp = ServiceError /\ Len(llm_log) = Len(critiques) + 1
        THEN /\ llm_log' = Append(llm_log,
                                  Call("critique", Len(critiques),
                                       CritiqueSource(mcqs[Len(critiques) + 1], context_chunks),
                                       resp))
             /\ pc' = pc
             /\ UNCHANGED <<critiques, stage_log>>
        ELSE /\ CritiqueWith(resp)
             /\ pc' = IF Len(critiques') = Len(mcqs) THEN "validating" ELSE "critiquing"
    /\ UNCHANGED <<context_chunks, mcqs, validations, result>>
    /\ UNCHANGED <<hash_seed, call_args, results, success_rate>>

\* Step 3: the critic agent, one MCQ per step, with one of the given answers
CritiqueFrom(resps) ==
    /\ pc = "critiquing"
    /\ \E resp \in resps : CritiqueWith(resp)
    /\ pc' = IF Len(critiques') = Len(mcqs) THEN "validating" ELSE "critiquing"
    /\ UNCHANGED <<context_chunks, mcqs, validations, result>>
    /\ UNCHANGED <<hash_seed, call_args, results, success_rate>>

Critique == CritiqueFrom(RunCritiqueResponses)

\* validate_mcqs, or the exception it lets through
ValidateCall ==
    /\ \E seed \in Draws(hash_seed, mcqs) :
        /\ hash_seed' = seed
        /\ validations' = IF ValidateRaises(mcqs) THEN <<>>
                          ELSE ValidateMcqs(mcqs, critiques, seed)
    /\ stage_log' = Append(stage_log, "validation")

\* Step 4: the validation agent
Validate ==
    /\ pc = "validating"
    /\ ValidateCall
    /\ pc' = IF ValidateRaises(mcqs) THEN "RAISED" ELSE "validated"
    /\ UNCHANGED <<context_chunks, mcqs, critiques, result, llm_log>>
    /\ UNCHANGED <<call_args, results, success_rate>>

\* Create final result
AggregateAs(query) ==
    /\ pc = "validated"
    /\ result' = MCQGenerationResult(query, mcqs, critiques, validations)
    /\ stage_log' = Append(stage_log, "aggregation")
    /\ pc' = "AGGREGATED"
    /\ UNCHANGED <<context_chunks, mcqs, critiques, validations, llm_log>>
    /\ UNCHANGED <<hash_seed, call_args, results, success_rate>>

Aggregate == AggregateAs(Query)

Next == Retrieve \/ Generate \/ Critique \/ Validate \/ Aggregate

Spec == Init /\ [][Next]_vars

----------------------------------------------------------------------------
(* The stages called on their own, on any input the program can hand them *)

Idle ==
    /\ critiques = <<>>
    /\ validations = <<>>
    /\ result = NoResult
    /\ llm_log = <<>>
    /\ stage_log = <<>>
    /\ FreshProcess

(* generate_mcqs(context_chunks) *)

\* items that cannot be converted into an MCQ
MalformedItems ==
    { StringItem,
      GoodItem("A", JStr("extreme"), JInt(0)),
      GoodItem("A", JNull, JInt(0)),
      GoodItem("A", JStr("easy"), JStr("0")),
      GoodItem("A", JStr("easy"), JNull),
      GoodItem("A", JStr("easy"), JInt(0 - 9)),
      GoodItem("A", JStr("easy"), JNum(0)),
      Item(JText(QGood), JStr("A"), JStr("A"), JText(EGood), JStr("easy"), JInt(0)),
      Item(JMissing, JList(Opts4), JStr("A"), JText(EGood), JStr("easy"), JInt(0)),
      Item(JText(QGood), JMissing, JStr("A"), JText(EGood), JStr("easy"), JInt(0)),
      Item(JText(QGood), JNull, JStr("A"), JText(EGood), JStr("easy"), JInt(0)),
      Item(JText(QGood), JList(<<StringOpt>>), JStr("A"), JText(EGood), JStr("easy"), JInt(0)),
      Item(JText(QGood), JList(<<OptNoText("A")>>), JStr("A"), JText(EGood), JStr("easy"), JInt(0)),
      Item(JText(QGood), JList(<<Opt("A", "a"), OptNoLabel("a")>>), JStr("A"), JText(EGood),
           JStr("easy"), JInt(0)),
      Item(JText(QGood), JList(Opts4), JMissing, JText(EGood), JStr("easy"), JInt(0)),
      Item(JText(QGood), JList(Opts4), JStr("A"), JMissing, JStr("easy"), JInt(0)) }

\* items that convert, whatever validation says of the MCQ later
ConvertibleItems ==
    { GoodItem("A", JStr("medium"), JInt(0)),
      GoodItem("B", JMissing, JInt(1)),
      GoodItem("C", JStr("hard"), JMissing),
      GoodItem("D", JStr("easy"), JInt(0 - 1)),
      GoodItem("E", JStr("easy"), JInt(7)),
      GoodItem("A", JStr("easy"), JNum(Points(7))),
      GoodItem("A", JStr("easy"), JNaN),
      Item(JList(<<>>), JStr(""), JStr("A"), JList(<<>>), JStr("easy"), JInt(0)),
      Item(JText(QPadded), JList(Opts3), JStr("A"), JText(EShort), JStr("easy"), JInt(0)),
      Item(JInt(7), JList(OptsDup), JStr("A"), JNull, JStr("easy"), JInt(0)) }

AllGenResponses ==
    { ServiceError, Text(<<>>), Text(<<Prose>>),
      Text(<<Json([j |-> "object"])>>), Text(<<Json([j |-> "number"])>>),
      Text(<<Prose, Json(Array(<<GoodItem("A", JStr("medium"), JInt(0))>>))>>),
      Text(<<FenceJson, Json(Array(<<GoodItem("A", JStr("medium"), JInt(0))>>)), Fence>>),
      Text(<<Prose, FenceJson, Json(Array(<<GoodItem("A", JStr("medium"), JInt(0))>>)), Fence, Prose>>),
      Text(<<Prose, Fence, Json(Array(<<GoodItem("A", JStr("medium"), JInt(0))>>)), Fence, Prose>>),
      Text(<<Fence, Prose, Json(Array(<<GoodItem("A", JStr("medium"), JInt(0))>>)), Fence>>),
      Text(<<FenceJson, Json(Array(<<StringItem>>)), Fence>>),
      Text(<<Piece, Fence, Piece>>), Text(<<Piece, FenceJson, Piece>>),
      Text(<<FenceJson, Piece, Fence, Piece, Fence>>),
      Text(<<Fence, Piece, FenceJson, Json(Array(<<>>)), Fence, Piece, Fence>>) }
    \cup {Text(<<Json(Array(items))>>) :
            items \in SeqsUpTo(MalformedItems \cup ConvertibleItems, MaxMcqs)}

\* num_mcqs and difficulty of a call of generate_mcqs: they are written into
\* the prompt and nothing else reads them
GenerateArgs == [num_mcqs : {0, 3}, difficulty : {JNull, JStr("hard")}]

InitGenerate ==
    /\ pc = "call_generate"
    /\ context_chunks \in ChunkLists
    /\ mcqs = <<>>
    /\ critiques = <<>>
    /\ validations = <<>>
    /\ result = NoResult
    /\ llm_log = <<>>
    /\ stage_log = <<>>
    /\ hash_seed = NoOrders
    /\ call_args \in GenerateArgs
    /\ results = <<>>
    /\ success_rate = NoRate

GenerateOnly ==
    /\ pc = "call_generate"
    /\ \E resp \in AllGenResponses : GenerateWith(resp)
    /\ pc' = "generate_returned"
    /\ UNCHANGED <<context_chunks, critiques, validations, result>>
    /\ UNCHANGED <<hash_seed, call_args, results, success_rate>>

SpecGenerate == InitGenerate /\ [][GenerateOnly]_vars

(* critique_mcqs(mcqs, context_chunks) *)

\* MCQs as generation builds them, from the fragments of one retrieval
GivenMcqs ==
    { BuildMcq(GoodItem("A", JStr("medium"), JInt(0)), 0, <<F0a, F1a>>),
      BuildMcq(GoodItem("B", JStr("hard"), JInt(1)), 1, <<F0a, F0b>>),
      BuildMcq(Item(JInt(7), JList(Opts3), JStr("A"), JText(EShort), JStr("easy"), JInt(0)),
               0, <<FNone>>) }

AllCritiqueResponses ==
    RunCritiqueResponses
    \cup { Text(<<FenceJson, Json(Scores(JNum(Points(8)), JNum(Points(8)), JNum(Points(6)))), Fence>>),
           Text(<<Json(Array(<<>>))>>),
           Text(<<Json(Scores(JNum(Points(9)), JNull, JNum(Points(9))))>>),
           Text(<<Json(Scores(JNum(Points(9)), JNum(Points(9)), JStr("high")))>>),
           Text(<<Json(Scores(JStr(" 9 "), JText(<<"9", ".", "5", "\r">>), JStr("nan")))>>),
           Text(<<Piece, Fence, Json(CritiqueData(JMissing, JMissing, JMissing,
                                                  JMissing, JMissing, JMissing)),
                  Fence, Piece>>),
           Text(<<Json(Scores(JNum(Points(12)), JNum(Points(9)), JNum(0 - Points(1))))>>),
           Text(<<Json(CritiqueData(JNum(Points(9)), JNum(Points(9)), JNum(Points(9)),
                                    JStr("trivial"), JMissing, JMissing))>>) }

\* the fragment lists of a call: none, two of one document, two of two
\* documents, one without an id or a source
CritiqueChunkLists == {<<>>, <<F0a, F1a>>, <<F1a, F0b>>, <<FNone>>}

InitCritique ==
    /\ pc = "call_critique"
    /\ context_chunks \in CritiqueChunkLists
    /\ mcqs \in SeqsUpTo(GivenMcqs, MaxMcqs)
    /\ Idle

\* critiques = [] and the loop test
CritiqueEnter ==
    /\ pc = "call_critique"
    /\ pc' = IF mcqs = <<>> THEN "critique_returned" ELSE "critique_loop"
    /\ UNCHANGED <<context_chunks, mcqs, critiques, validations, result, llm_log, stage_log>>
    /\ UNCHANGED <<hash_seed, call_args, results, success_rate>>

CritiqueLoop ==
    /\ pc = "critique_loop"
    /\ \E resp \in AllCritiqueResponses : CritiqueWith(resp)
    /\ pc' = IF Len(critiques') = Len(mcqs) THEN "critique_returned" ELSE "critique_loop"
    /\ UNCHANGED <<context_chunks, mcqs, validations, result>>
    /\ UNCHANGED <<hash_seed, call_args, results, success_rate>>

NextCritique == CritiqueEnter \/ CritiqueLoop

SpecCritique == InitCritique /\ [][NextCritique]_vars

(* validate_mcqs(mcqs, critiques, context_chunks) *)

\* MCQs as generation builds them: sound, short or padded texts, three
\* options, a repeated label, no option matching the answer, no source file,
\* a question that is a number
ValidatedMcqs ==
    { BuildMcq(GoodItem("A", JStr("medium"), JInt(0)), 0, <<F0a>>),
      BuildMcq(Item(JText(QPadded), JList(Opts4), JStr("B"), JText(EGood), JStr("easy"), JInt(0)),
               0, <<F0a>>),
      BuildMcq(Item(JText(QGood), JList(Opts3), JStr("A"), JNull, JStr("easy"), JInt(0)),
               0, <<F0a>>),
      BuildMcq(Item(JText(QGood), JList(OptsDup), JStr("A"), JText(EGood), JStr("easy"), JInt(0)),
               0, <<F0a>>),
      BuildMcq(GoodItem("E", JStr("hard"), JInt(0)), 0, <<F0a>>),
      BuildMcq(GoodItem("A", JStr("medium"), JInt(0)), 0, <<FNone>>),
      BuildMcq(Item(JInt(7), JList(Opts4), JStr("A"), JText(EGood), JStr("easy"), JInt(0)),
               0, <<F0a>>) }

\* the three scores of a critique the critic agent can build
GivenScores ==
    { <<F(Points(7)), F(Points(7)), F(Points(7))>>,
      <<F(Points(7)), F(Points(7)), F(Points(6) + 3)>>,
      <<F(Points(7)), F(Points(7)), F(Points(6))>>,
      <<F(Points(8)), F(Points(8)), F(Points(5))>>,
      <<F(Points(9)), F(Points(9)), F(Points(5) + 3)>>,
      <<F(Points(5)), F(Points(5)), F(Points(4))>>,
      <<F(Points(10)), F(Points(10)), F(Points(4))>>,
      <<F(Points(9)), F(Points(9)), NaN>> }

CritiquesOf(scores) ==
    [n \in 1..Len(scores) |->
        CritiqueResult(n - 1, scores[n][1], scores[n][2], scores[n][3], "medium", <<>>, <<>>)]

InitValidate ==
    /\ pc = "call_validate"
    /\ context_chunks = <<F0a>>
    /\ mcqs \in SeqsUpTo(ValidatedMcqs, MaxMcqs)
    /\ critiques \in {CritiquesOf(scores) : scores \in SeqsUpTo(GivenScores, MaxMcqs)}
    /\ validations = <<>>
    /\ result = NoResult
    /\ llm_log = <<>>
    /\ stage_log = <<>>
    /\ FreshProcess

ValidateOnly ==
    /\ pc = "call_validate"
    /\ ValidateCall
    /\ pc' = IF ValidateRaises(mcqs) THEN "RAISED" ELSE "validate_returned"
    /\ UNCHANGED <<context_chunks, mcqs, critiques, result, llm_log>>
    /\ UNCHANGED <<call_args, results, success_rate>>

SpecValidate == InitValidate /\ [][ValidateOnly]_vars

(* validate_mcqs on one MCQ that any caller can construct *)

\* the MCQ dataclass with its options as given, no snippet, and the
\* generation order 0 in its metadata
MCQ(question, options, correct_answer, explanation, difficulty, chunk_id, source_filename) ==
    [question |-> question, options |-> options, correct_answer |-> correct_answer,
     explanation |-> explanation, difficulty |-> difficulty, chunk_id |-> chunk_id,
     source_filename |-> source_filename, context_snippet |-> <<>>,
     generation_order |-> 0]

\* options with the given labels, flagged correct at the positions of correct
Options(labels, correct) ==
    [n \in 1..Len(labels) |-> MCQOption(labels[n], "text", n \in correct)]

FormatQuestions ==
    {JText(QGood), JText(QNine), JText(QPadded), JText(QReturn), JText(<<>>), JNull, JList(<<>>)}
FormatExplanations == {JText(EGood), JText(EShort), JNull, JList(<<>>)}
FormatSources == {JStr("a.pdf"), JList(<<>>)}
FormatOptions ==
    { Options(<<"A", "B", "C", "D">>, {1}),
      Options(<<"A", "B", "C", "D">>, {}),
      Options(<<"A", "B", "C", "D">>, {1, 2}),
      Options(<<"A", "B", "C">>, {1}),
      Options(<<"A", "B", "C", "D", "D">>, {1}),
      Options(<<"A", "B", "C", "E">>, {1}),
      Options(<<"D", "C", "B", "A">>, {4}) }

FormatMcqs ==
    { MCQ(q, o, a, e, "medium", "0", f) :
        q \in FormatQuestions, o \in FormatOptions, a \in {"A", "B"},
        e \in FormatExplanations, f \in FormatSources }

InitFormat ==
    /\ pc = "call_validate"
    /\ context_chunks = <<F0a>>
    /\ mcqs \in {<<m>> : m \in FormatMcqs}
    /\ critiques = <<>>
    /\ validations = <<>>
    /\ result = NoResult
    /\ llm_log = <<>>
    /\ stage_log = <<>>
    /\ FreshProcess

SpecFormat == InitFormat /\ [][ValidateOnly]_vars

(* MCQGenerationResult(query, mcqs, critiques, validations) *)

ValidationResult(status, grounded, formatted, metadata, hallucination, errors) ==
    [mcq_index |-> 0, status |-> status, is_context_grounded |-> grounded,
     is_properly_formatted |-> formatted, has_required_metadata |-> metadata,
     has_hallucination |-> hallucination, validation_errors |-> errors]

\* any record the dataclass admits, consistent or not
GivenValidations ==
    { ValidationResult("VALID", TRUE, TRUE, TRUE, FALSE, <<>>),
      ValidationResult("INVALID", TRUE, TRUE, TRUE, FALSE, <<Err("Missing chunk_id", 0)>>),
      ValidationResult("NEEDS_REVISION", TRUE, TRUE, TRUE, FALSE, <<Err("Missing chunk_id", 0)>>),
      ValidationResult("VALID", FALSE, TRUE, TRUE, FALSE, <<>>),
      ValidationResult("VALID", TRUE, FALSE, TRUE, FALSE, <<>>),
      ValidationResult("VALID", TRUE, TRUE, FALSE, FALSE, <<>>),
      ValidationResult("VALID", TRUE, TRUE, TRUE, TRUE, <<>>) }

InitResult ==
    /\ pc = "call_result"
    /\ context_chunks = <<>>
    /\ mcqs \in SeqsUpTo(GivenMcqs, MaxMcqs)
    /\ critiques = <<>>
    /\ validations \in SeqsUpTo(GivenValidations, MaxMcqs)
    /\ result = NoResult
    /\ llm_log = <<>>
    /\ stage_log = <<>>
    /\ FreshProcess

Construct ==
    /\ pc = "call_result"
    /\ result' = MCQGenerationResult(Query, mcqs, critiques, validations)
    /\ pc' = "built"
    /\ UNCHANGED <<context_chunks, mcqs, critiques, validations, llm_log, stage_log>>
    /\ UNCHANGED <<hash_seed, call_args, results, success_rate>>

SpecResult == InitResult /\ [][Construct]_vars

(* CritiqueResult(..., overall_score=...) *)

\* scores in half points, and NaN
ScoreValues == {F(0), F(3), F(Points(5)), F(Points(7)), F(Points(9) + 3), F(Points(10)), NaN}

InitScore ==
    /\ pc = "call_critique_result"
    /\ context_chunks = <<>>
    /\ mcqs = <<>>
    /\ critiques = <<>>
    /\ validations = <<>>
    /\ result = NoResult
    /\ llm_log = <<>>
    /\ stage_log = <<>>
    /\ hash_seed = NoOrders
    /\ call_args \in [1..4 -> ScoreValues]
    /\ results = <<>>
    /\ success_rate = NoRate

\* the three scores and the overall_score passed, in call_args
ConstructCritique ==
    /\ pc = "call_critique_result"
    /\ critiques' = <<CritiquePostInit(
                        CritiqueFields(0, call_args[1], call_args[2], call_args[3],
                                       "medium", <<>>, <<>>, call_args[4]))>>
    /\ pc' = "critique_built"
    /\ UNCHANGED <<context_chunks, mcqs, validations, result, llm_log, stage_log>>
    /\ UNCHANGED <<hash_seed, call_args, results, success_rate>>

SpecScore == InitScore /\ [][ConstructCritique]_vars

(* generate_mcqs_batch: the runs of generate_mcqs one after the other, each a
   step per external call as in a single run, and the summary *)

RECURSIVE SumOver(_, _)
\* sum(len(r.<field>) for r in results)
SumOver(rs, valid) ==
    IF rs = <<>> THEN 0
    ELSE SumOver(Tail(rs), valid)
         + (IF valid THEN Len(Head(rs).valid_mcqs) ELSE Len(Head(rs).mcqs))

(* The success rate is computed in doubles and printed with one decimal:
   total_valid / total_generated is rounded to a double of 53 bits, its
   product with 100 is rounded again, and the text is the tenth nearest to
   that double, the even one when the double is exactly halfway.  The double
   differs from the quotient only where it matters when the quotient is
   itself halfway between two tenths; there the two roundings are followed,
   on remainders, to tell on which side of the quotient the double lies. *)

\* the bits after the first of a double's significand
MantissaBits == 52

\* x * 2^n modulo m
RECURSIVE DoubleMod(_, _, _)
DoubleMod(x, n, m) == IF n = 0 THEN x % m ELSE DoubleMod((2 * x) % m, n - 1, m)

\* the least p with v * 2^p >= g, for 0 < v <= g
RECURSIVE BinaryExponent(_, _)
BinaryExponent(v, g) == IF v >= g THEN 0 ELSE 1 + BinaryExponent(2 * v, g)

\* the sign of the double v / g * 100 less the number 100 v / g, for
\* 0 < v <= g.  With e = 52 + p the quotient is M / 2^e for the integer M
\* nearest to v 2^e / g, off by rho / g; the product 100 M loses its last 6
\* or 7 bits, off by rho2; the difference is (-100 rho - rho2 g) / (g 2^e).
PercentError(v, g) ==
    LET p == BinaryExponent(v, g)
        e == MantissaBits + p
        r0 == DoubleMod(v, e, g)
        up == IF 2 * r0 > g THEN 1 ELSE 0
        rho == r0 - up * g
        low8 == ((DoubleMod(v, e, 256 * g) - r0) \div g + up) % 256
        j == IF 100 * v * 2^p < 128 * g THEN 6 ELSE 7
        kept == (100 * low8) % 2^(j + 1)
        low == kept % 2^j
        up2 == IF low > 2^(j - 1) \/ (low = 2^(j - 1) /\ kept >= 2^j) THEN 1 ELSE 0
        rho2 == low - up2 * 2^j
        diff == 0 - 100 * rho - rho2 * g
    IN IF diff > 0 THEN 1 ELSE IF diff < 0 THEN 0 - 1 ELSE 0

\* f"{total_valid/total_generated*100:.1f}": the rate printed, in tenths of a
\* percent; the caller excludes 0 generated
SuccessRate(total_valid, total_generated) ==
    LET k == (1000 * total_valid) \div total_generated
        rest == (1000 * total_valid) % total_generated
        side == IF 2 * rest # total_generated
                THEN (IF 2 * rest > total_generated THEN 1 ELSE 0 - 1)
                ELSE PercentError(total_valid, total_generated)
    IN [tenths |-> CASE side > 0 -> k + 1
                     [] side < 0 -> k
                     [] OTHER -> IF k % 2 = 0 THEN k ELSE k + 1]

\* most queries of one batch
MaxQueries == 2

BatchQueries == {"alpha", "beta"}

\* answers to a critique call: high scores, and a grounding score of 4.0
HighScores == Text(<<Json(Scores(JNum(Points(9)), JNum(Points(9)), JNum(Points(9))))>>)
LowGrounding == Text(<<Json(Scores(JNum(Points(5)), JNum(Points(5)), JNum(Points(4))))>>)

\* answers to a generation call: two well-formed items, one item with a
\* short question, one item whose question is a number
TwoItems ==
    Text(<<Json(Array(<<GoodItem("A", JStr("medium"), JInt(0)),
                        GoodItem("B", JStr("hard"), JInt(0))>>))>>)
ShortQuestion ==
    Text(<<Json(Array(<<Item(JText(QNine), JList(Opts4), JStr("A"), JText(EGood),
                             JStr("easy"), JInt(0))>>))>>)
NumericQuestion ==
    Text(<<Json(Array(<<Item(JInt(7), JList(Opts4), JStr("A"), JText(EGood),
                             JStr("easy"), JInt(0))>>))>>)

\* what the collaborators hand to the runs of a batch, call by call
BatchChunkLists == {<<>>, <<F0a>>}
BatchGenResponses == {Text(<<Prose>>), TwoItems, ShortQuestion, NumericQuestion}
BatchCritiqueResponses == {HighScores, LowGrounding}

InitBatch ==
    /\ pc = "batch_loop"
    /\ context_chunks = <<>>
    /\ mcqs = <<>>
    /\ critiques = <<>>
    /\ validations = <<>>
    /\ result = NoResult
    /\ llm_log = <<>>
    /\ stage_log = <<>>
    /\ hash_seed = NoOrders
    /\ call_args \in SeqsUpTo(BatchQueries, MaxQueries)
    /\ results = <<>>
    /\ success_rate = NoRate

\* the query of the pass under way
BatchQuery == call_args[Len(results) + 1]

\* the loop takes the next query, announces it and calls generate_mcqs
BatchEnter ==
    /\ pc = "batch_loop"
    /\ Len(results) < Len(call_args)
    /\ stage_log' = Append(stage_log, BatchQuery)
    /\ pc' = "start"
    /\ UNCHANGED <<context_chunks, mcqs, critiques, validations, result, llm_log>>
    /\ UNCHANGED <<hash_seed, call_args, results, success_rate>>

\* the steps of the run inside the pass
BatchRetrieve == RetrieveFrom(BatchQuery, BatchChunkLists)
BatchGenerate == GenerateFrom(BatchQuery, BatchGenResponses)
BatchCritique == CritiqueFrom(BatchCritiqueResponses)
BatchAggregate == AggregateAs(BatchQuery)

\* results.append(result): the run has returned and its locals end with it.
\* A run that raised has left generate_mcqs_batch with its exception: no
\* step follows pc = "RAISED".
BatchAppend ==
    /\ pc \in {"NO_CONTEXT", "GENERATION_EMPTY", "AGGREGATED"}
    /\ results' = Append(results, result)
    /\ context_chunks' = <<>>
    /\ mcqs' = <<>>
    /\ critiques' = <<>>
    /\ validations' = <<>>
    /\ result' = NoResult
    /\ pc' = "batch_loop"
    /\ UNCHANGED <<llm_log, stage_log>>
    /\ UNCHANGED <<hash_seed, call_args, success_rate>>

\* one pass of the loop, step by step
BatchRun ==
    \/ BatchEnter \/ BatchRetrieve \/ BatchGenerate \/ BatchCritique
    \/ Validate \/ BatchAggregate \/ BatchAppend

\* the batch summary, whose division raises on a total of 0, and the return
BatchSummary ==
    /\ pc = "batch_loop"
    /\ Len(results) = Len(call_args)
    /\ LET total_valid == SumOver(results, TRUE)
           total_generated == SumOver(results, FALSE)
       IN IF total_generated = 0
          THEN pc' = "BATCH_SUMMARY_RAISED" /\ success_rate' = success_rate
          ELSE /\ pc' = "batch_returned"
               /\ success_rate' = SuccessRate(total_valid, total_generated)
    /\ UNCHANGED <<context_chunks, mcqs, critiques, validations, result, llm_log, stage_log>>
    /\ UNCHANGED <<hash_seed, call_args, results>>

NextBatch == BatchRun \/ BatchSummary

SpecBatch == InitBatch /\ [][NextBatch]_vars

----------------------------------------------------------------------------
(* generate_mcqs twice on the same external outputs *)

\* the external outputs one run consumes: the retrieval result, the answer
\* to the generation call and the answers to the critique calls, in order
Outputs(chunks, generation, critique) ==
    [retrieval |-> chunks, generation |-> generation, critique |-> critique]

\* the run ended with an exception instead of a result
RunRaised == [raised |-> TRUE]

\* an answer whose item has the option labels A, B, C, E
OddLabels ==
    Text(<<Json(Array(<<Item(JText(QGood),
                             JList(<<Opt("A", "a"), Opt("B", "b"), Opt("C", "c"), Opt("E", "e")>>),
                             JStr("A"), JText(EGood), JStr("easy"), JInt(0))>>))>>)

\* what the collaborators hand to both runs
TwiceOutputs ==
    { Outputs(<<>>, ServiceError, <<>>),
      Outputs(<<F0a>>, Text(<<Prose>>), <<>>),
      Outputs(<<F0a>>, TwoItems, <<HighScores, HighScores>>),
      Outputs(<<F0a>>, TwoItems, <<HighScores, LowGrounding>>),
      Outputs(<<F0a>>, TwoItems, <<ServiceError, HighScores>>),
      Outputs(<<F0a>>, ShortQuestion, <<HighScores>>),
      Outputs(<<F0a>>, NumericQuestion, <<HighScores>>),
      Outputs(<<F0a>>, OddLabels, <<HighScores>>) }

InitTwice ==
    /\ pc = "start"
    /\ context_chunks = <<>>
    /\ mcqs = <<>>
    /\ critiques = <<>>
    /\ validations = <<>>
    /\ result = NoResult
    /\ llm_log = <<>>
    /\ stage_log = <<>>
    /\ hash_seed = NoOrders
    /\ call_args \in [query : BatchQueries, outputs : TwiceOutputs]
    /\ results = <<>>
    /\ success_rate = NoRate

\* the steps of a run that receives the outputs of call_args
TwiceRetrieve == RetrieveFrom(call_args.query, {call_args.outputs.retrieval})
TwiceGenerate == GenerateFrom(call_args.query, {call_args.outputs.generation})
TwiceCritique ==
    /\ Len(critiques) < Len(call_args.outputs.critique)
    /\ CritiqueFrom({call_args.outputs.critique[Len(critiques) + 1]})
TwiceAggregate == AggregateAs(call_args.query)

\* the caller has the outcome of the run, its result or its exception; the
\* locals of the run end with it
RunEnd ==
    /\ pc \in {"NO_CONTEXT", "GENERATION_EMPTY", "AGGREGATED", "RAISED"}
    /\ results' = Append(results, IF pc = "RAISED" THEN RunRaised ELSE result)
    /\ context_chunks' = <<>>
    /\ mcqs' = <<>>
    /\ critiques' = <<>>
    /\ validations' = <<>>
    /\ result' = NoResult
    /\ pc' = "run_ended"
    /\ UNCHANGED <<llm_log, stage_log>>
    /\ UNCHANGED <<hash_seed, call_args, success_rate>>

\* one call of generate_mcqs from its first line to its return or exception,
\* step by step, in the interpreter process that is running
RunToEnd ==
    \/ TwiceRetrieve \/ TwiceGenerate \/ TwiceCritique
    \/ Validate \/ TwiceAggregate \/ RunEnd

\* generate_mcqs is called a second time in the same process
CallAgain ==
    /\ pc = "run_ended"
    /\ Len(results) < 2
    /\ pc' = "start"
    /\ UNCHANGED <<context_chunks, mcqs, critiques, validations, result, llm_log, stage_log>>
    /\ UNCHANGED <<hash_seed, call_args, results, success_rate>>

\* the program is started again and generate_mcqs is called: the new
\* interpreter draws its own string hash seed and has written no set of labels
StartProcess ==
    /\ pc = "run_ended"
    /\ Len(results) < 2
    /\ hash_seed' = NoOrders
    /\ pc' = "start"
    /\ UNCHANGED <<context_chunks, mcqs, critiques, validations, result, llm_log, stage_log>>
    /\ UNCHANGED <<call_args, results, success_rate>>

NextTwice == RunToEnd \/ CallAgain \/ StartProcess

SpecTwice == InitTwice /\ [][NextTwice]_vars

----------------------------------------------------------------------------
(* The claims *)

\* the run has returned a result to its caller
Returned == pc \in {"NO_CONTEXT", "GENERATION_EMPTY", "AGGREGATED"}

\* a result with nothing in it
IsEmptyResult(r) ==
    /\ r.mcqs = <<>> /\ r.critiques = <<>> /\ r.validations = <<>>
    /\ r.valid_mcqs = <<>> /\ r.invalid_mcqs = <<>>

\* x >= n points, as the comparison of two doubles
AtLeast(x, n) == x.k = "num" /\ x.x >= Points(n)

\* C1 (as claimed): in every result a run returns, each MCQ of valid_mcqs
\* passed the structural and the metadata check, its critique has
\* grounding_score >= 6.0, its validation recorded no error and its status
\* is VALID.  Fails: a critique whose grounding_score is NaN is below no
\* threshold, so the MCQ is VALID although its grounding is not >= 6.0.
C1_ValidMcqsAreGrounded ==
    Returned =>
        \A n \in 1..Len(result.valid_mcqs) :
            LET m == result.valid_mcqs[n]
                v == result.validations[m.generation_order + 1]
                c == result.critiques[m.generation_order + 1]
            IN /\ v.is_properly_formatted
               /\ v.has_required_metadata
               /\ AtLeast(c.grounding_score, 6)
               /\ v.validation_errors = <<>>
               /\ v.status = "VALID"

\* C2: for a result built from any mcqs and any validations, of any
\* lengths, len(valid_mcqs) + len(invalid_mcqs) = len(mcqs).
C2_PartitionCoversMcqs ==
    pc = "built" =>
        /\ result.mcqs = mcqs
        /\ Len(result.valid_mcqs) + Len(result.invalid_mcqs) = Len(mcqs)

\* C2 witness: fewer validations than MCQs, and both lists non-empty
C2_Witness ==
    /\ pc = "built"
    /\ Len(validations) < Len(mcqs)
    /\ result.valid_mcqs # <<>>
    /\ result.invalid_mcqs # <<>>

\* the elements of seq at the positions S, in the order of seq
C3_Pick(seq, S) ==
    [k \in 1..Cardinality(S) |->
        seq[CHOOSE i \in S : Cardinality({j \in S : j < i}) = k - 1]]

\* the positions of mcqs that hold a validation record that is valid
C3_ValidPositions ==
    {n \in 1..Len(mcqs) :
        /\ n <= Len(validations)
        /\ validations[n].status = "VALID"
        /\ validations[n].is_context_grounded
        /\ validations[n].is_properly_formatted
        /\ validations[n].has_required_metadata
        /\ ~validations[n].has_hallucination}

\* C3: mcqs[i] is in valid_mcqs exactly when validations[i] exists and is
\* valid (status VALID, the three flags true, no hallucination), and in
\* invalid_mcqs otherwise; both lists keep the order of mcqs.
C3_PartitionFollowsIsValid ==
    pc = "built" =>
        /\ result.valid_mcqs = C3_Pick(mcqs, C3_ValidPositions)
        /\ result.invalid_mcqs = C3_Pick(mcqs, (1..Len(mcqs)) \ C3_ValidPositions)

\* C3 witness: two different MCQs, the first with a record whose status is
\* VALID, the second without a record or with a VALID record that fails a flag
C3_Witness ==
    /\ pc = "built"
    /\ Len(mcqs) = 2
    /\ mcqs[1] # mcqs[2]
    /\ validations # <<>>
    /\ \A n \in 1..Len(validations) : validations[n].status = "VALID"
    /\ result.valid_mcqs = <<mcqs[1]>>
    /\ result.invalid_mcqs = <<mcqs[2]>>

\* C4: when retrieval returns no fragment the run ends in NO_CONTEXT with
\* an empty result, after the retrieval stage alone and without any call
\* of the text-generation service.
C4_NoContextEndsRun ==
    (stage_log # <<>> /\ context_chunks = <<>>) =>
        /\ pc = "NO_CONTEXT"
        /\ IsEmptyResult(result)
        /\ llm_log = <<>>
        /\ stage_log = <<"retrieval">>

C4_Witness == pc = "NO_CONTEXT" /\ context_chunks = <<>> /\ IsEmptyResult(result)

\* answers that json.loads rejects: prose, and prose before the array
C5_Unparsable ==
    { Text(<<Prose>>),
      Text(<<Prose, Json(Array(<<GoodItem("A", JStr("medium"), JInt(0))>>))>>) }

\* C5: when the answer to the generation call is unparsable, generation
\* yields no MCQ and the run ends in GENERATION_EMPTY with an empty result,
\* the critique and validation stages never invoked.
C5_UnparsableEndsRun ==
    (llm_log # <<>> /\ llm_log[1].response \in C5_Unparsable) =>
        /\ pc = "GENERATION_EMPTY"
        /\ mcqs = <<>>
        /\ IsEmptyResult(result)
        /\ Len(llm_log) = 1
        /\ stage_log = <<"retrieval", "generation">>

C5_Witness ==
    /\ pc = "GENERATION_EMPTY"
    /\ llm_log[1].response =
         Text(<<Prose, Json(Array(<<GoodItem("A", JStr("medium"), JInt(0))>>))>>)
    /\ IsEmptyResult(result)

\* the answer is one JSON array and nothing else
C6_IsArray(resp) ==
    resp.kind = "text" /\ Len(resp.tokens) = 1 /\ resp.tokens[1].val.j = "array"

C6_Items(resp) == IF C6_IsArray(resp) THEN resp.tokens[1].val.items ELSE <<>>

\* C6: generation is all or nothing and returns: on a service error, on a
\* text that does not parse, and on an array holding a single item that
\* cannot be converted, it returns the empty list; it never returns a part
\* of the items.
C6_AllOrNothing ==
    /\ pc \in {"call_generate", "generate_returned"}
    /\ (pc = "generate_returned" /\ llm_log # <<>>) =>
        LET resp == llm_log[1].response
            items == C6_Items(resp)
        IN /\ resp = ServiceError => mcqs = <<>>
           /\ resp \in {Text(<<>>), Text(<<Prose>>)} \cup C5_Unparsable => mcqs = <<>>
           /\ (\E n \in 1..Len(items) : items[n] \in MalformedItems) => mcqs = <<>>
           /\ C6_IsArray(resp) => Len(mcqs) \in {0, Len(items)}

\* C6 witness: a convertible item followed by one with an unknown difficulty
C6_Witness ==
    /\ pc = "generate_returned"
    /\ llm_log # <<>>
    /\ C6_Items(llm_log[1].response) =
         <<GoodItem("A", JStr("medium"), JInt(0)), GoodItem("A", JStr("extreme"), JInt(0))>>
    /\ mcqs = <<>>

\* answers on which a critique call fails
C7_Failing == {ServiceError, Text(<<Prose>>), Text(<<Json(Array(<<>>))>>)}

\* an answer that scores 9, 9, 9 and assesses the MCQ as hard
C7_Nines == Text(<<Json(Scores(JNum(Points(9)), JNum(Points(9)), JNum(Points(9))))>>)

\* C7: a failed critique call leaves the neutral critique (7.0 three times,
\* the difficulty the MCQ declares) at its position and the pass goes on:
\* every MCQ gets its critique, and a position answered with scores carries
\* those scores whatever happened at the other positions.
C7_FailureIsLocal ==
    /\ \A k \in 1..Len(llm_log) :
        LET n == llm_log[k].index + 1 IN
        /\ n <= Len(critiques)
        /\ llm_log[k].response \in C7_Failing =>
            /\ critiques[n].mcq_index = n - 1
            /\ critiques[n].clarity_score = F(Points(7))
            /\ critiques[n].correctness_score = F(Points(7))
            /\ critiques[n].grounding_score = F(Points(7))
            /\ critiques[n].difficulty_assessment = mcqs[n].difficulty
        /\ llm_log[k].response = C7_Nines =>
            /\ critiques[n].mcq_index = n - 1
            /\ critiques[n].clarity_score = F(Points(9))
            /\ critiques[n].correctness_score = F(Points(9))
            /\ critiques[n].grounding_score = F(Points(9))
            /\ critiques[n].difficulty_assessment = "hard"
    /\ pc = "critique_returned" => Len(critiques) = Len(mcqs)

\* C7 witness: the first call fails, the second is answered
C7_Witness ==
    /\ pc = "critique_returned"
    /\ Len(llm_log) = 2
    /\ llm_log[1].response = ServiceError
    /\ llm_log[2].response = C7_Nines
    /\ mcqs[1].difficulty = "hard"
    /\ critiques[1].grounding_score = F(Points(7))
    /\ critiques[2].grounding_score = F(Points(9))

\* C8: critique_mcqs returns one critique per MCQ, in order, whatever the
\* service answers and whether or not there are fragments.
C8_OneCritiquePerMcq ==
    /\ \A n \in 1..Len(critiques) : critiques[n].mcq_index = n - 1
    /\ Len(critiques) <= Len(mcqs)
    /\ pc = "critique_returned" => Len(critiques) = Len(mcqs)

\* C8 witness: two MCQs and no fragment
C8_Witness ==
    /\ pc = "critique_returned"
    /\ context_chunks = <<>>
    /\ Len(mcqs) = 2
    /\ Len(critiques) = 2
    /\ llm_log = <<>>

\* C9 (as claimed): validate_mcqs returns one record per MCQ, in order, for
\* any list of critiques, and calls no service.  Fails: on an MCQ whose
\* question is a number _check_format raises, and nothing is returned.
C9_OneValidationPerMcq ==
    pc # "call_validate" =>
        /\ pc = "validate_returned"
        /\ Len(validations) = Len(mcqs)
        /\ \A n \in 1..Len(validations) : validations[n].mcq_index = n - 1
        /\ llm_log = <<>>

\* C10: status is VALID exactly when no error was recorded, NEEDS_REVISION
\* exactly when an error was recorded and the critique at the position
\* exists with overall_score >= 7.0, and INVALID in every other case.
C10_StatusAssignment ==
    pc = "validate_returned" =>
        \A n \in 1..Len(validations) :
            LET v == validations[n]
                salvageable == n <= Len(critiques) /\ AtLeast(critiques[n].overall_score, 7)
            IN /\ v.status = "VALID" <=> v.validation_errors = <<>>
               /\ v.status = "NEEDS_REVISION" <=> (v.validation_errors # <<>> /\ salvageable)
               /\ v.status = "INVALID" <=> (v.validation_errors # <<>> /\ ~salvageable)

\* C10 witness: two MCQs with errors; the salvageable one has an overall_score
\* of exactly 7.0, the rejected one has no critique
C10_Witness ==
    /\ pc = "validate_returned"
    /\ Len(validations) = 2
    /\ Len(critiques) = 1
    /\ critiques[1].overall_score = F(Points(7))
    /\ validations[1].status = "NEEDS_REVISION"
    /\ validations[2].status = "INVALID"

\* the text without its leading and trailing whitespace; None has none
C11_Trimmed(x) == IF x.t = "text" THEN Strip(x.c) ELSE <<>>

\* C11: is_properly_formatted is true exactly when the trimmed question has
\* at least 10 characters, there are exactly 4 options, exactly 1 option is
\* flagged correct, the trimmed explanation has at least 10 characters and
\* the set of labels is {A, B, C, D}; each condition that fails records its
\* own error.
C11_FormatFlag ==
    pc = "validate_returned" =>
        \A n \in 1..Len(mcqs) :
            LET m == mcqs[n]
                v == validations[n]
                question_ok == Len(C11_Trimmed(m.question)) >= 10
                four_options == Len(m.options) = 4
                one_correct ==
                    Cardinality({k \in 1..Len(m.options) : m.options[k].is_correct}) = 1
                explanation_ok == Len(C11_Trimmed(m.explanation)) >= 10
                labels_ok ==
                    {m.options[k].label : k \in 1..Len(m.options)} = {"A", "B", "C", "D"}
                Has(msg) ==
                    \E k \in 1..Len(v.validation_errors) : v.validation_errors[k].msg = msg
            IN /\ v.is_properly_formatted <=>
                    (question_ok /\ four_options /\ one_correct /\ explanation_ok /\ labels_ok)
               /\ ~question_ok <=> Has("Question is too short or empty")
               /\ ~four_options <=> Has("Must have exactly 4 options, found")
               /\ ~one_correct <=> Has("Must have exactly 1 correct answer, found")
               /\ ~explanation_ok <=> Has("Explanation is too short or empty")
               /\ ~labels_ok <=> Has("Invalid option labels")

\* C11 witness: five options labelled A, B, C, D, D with one correct and both
\* texts long enough: the option count alone fails, and the flag is false
C11_Witness ==
    /\ pc = "validate_returned"
    /\ Len(mcqs[1].options) = 5
    /\ ~validations[1].is_properly_formatted
    /\ Len(validations[1].validation_errors) = 1
    /\ validations[1].validation_errors[1].msg = "Must have exactly 4 options, found"

\* C12: is_context_grounded is false exactly when the critique at the
\* position exists with grounding_score < 6.0, and has_hallucination is true
\* exactly when it exists with grounding_score < 5.0; each case records its
\* error, the first with the score; without a critique at the position the
\* MCQ counts as grounded, without hallucination and without such an error.
C12_GroundingFlags ==
    pc = "validate_returned" =>
        \A n \in 1..Len(mcqs) :
            LET v == validations[n]
                Below(points) ==
                    /\ n <= Len(critiques)
                    /\ critiques[n].grounding_score.k = "num"
                    /\ critiques[n].grounding_score.x < Points(points)
                Has(msg) ==
                    \E k \in 1..Len(v.validation_errors) : v.validation_errors[k].msg = msg
            IN /\ ~v.is_context_grounded <=> Below(6)
               /\ v.has_hallucination <=> Below(5)
               /\ Has("Low grounding score") <=> Below(6)
               /\ Has("Potential hallucination detected") <=> Below(5)
               /\ \A k \in 1..Len(v.validation_errors) :
                    v.validation_errors[k].msg = "Low grounding score" =>
                        v.validation_errors[k].arg = critiques[n].grounding_score.x

\* C12 witness: the first MCQ has a critique with a score of 5.5, not
\* grounded and no hallucination yet; the second has no critique
C12_Witness ==
    /\ pc = "validate_returned"
    /\ Len(critiques) = 1
    /\ Len(validations) = 2
    /\ critiques[1].grounding_score = F(Points(5) + 3)
    /\ ~validations[1].is_context_grounded
    /\ ~validations[1].has_hallucination
    /\ validations[2].is_context_grounded
    /\ ~validations[2].has_hallucination

\* C13 (as claimed): a run that fails does not abort the batch; the
\* remaining queries are run and the call returns one result per query, in
\* the order of the queries.  Fails: generate_mcqs_batch catches nothing, so
\* the exception of a run leaves it and no result is returned.
C13_BatchIsolatesFailures ==
    /\ pc # "RAISED"
    /\ pc = "batch_returned" =>
        /\ Len(results) = Len(call_args)
        /\ SelectSeq(stage_log, LAMBDA s : s \in BatchQueries) = call_args
        /\ \A n \in 1..Len(results) : results[n].query = call_args[n]

\* C14 (as claimed): the batch reports total_valid / total_generated over
\* all results, and 0 when nothing was generated, and returns its results
\* in both cases.  Fails: with a total of 0 the division raises.
C14_SuccessRate ==
    pc \in {"batch_returned", "BATCH_SUMMARY_RAISED"} =>
        LET total_valid == SumOver(results, TRUE)
            total_generated == SumOver(results, FALSE)
        IN /\ pc = "batch_returned"
           /\ Len(results) = Len(call_args)
           /\ success_rate # NoRate
           /\ total_generated = 0 => success_rate.tenths = 0
           /\ total_generated > 0 =>
                \* within half a tenth of a percent of the quotient
                /\ 2 * (success_rate.tenths * total_generated - 1000 * total_valid)
                        <= total_generated
                /\ 2 * (1000 * total_valid - success_rate.tenths * total_generated)
                        <= total_generated

\* C15 (as claimed): every run in which each external call returns or fails
\* ends in NO_CONTEXT, GENERATION_EMPTY or AGGREGATED with a result, and no
\* answer of the text-generation service surfaces as an exception.  Fails: a
\* generation answer whose item has a number as question passes generation
\* and critique, and validation raises on it; the run ends with the
\* exception and returns nothing.  A run is a finite sequence of stages, so
\* it ends with a result when every state that has not returned one can
\* take a step.
C15_RunEndsWithResult ==
    /\ Returned \/ ENABLED Next
    /\ pc # "RAISED"

\* C16: right after construction overall_score is the mean of the three
\* scores (three times it is their sum; it is NaN when one of them is),
\* whatever value the caller passed for overall_score.
C16_OverallIsMean ==
    pc = "critique_built" =>
        LET c == critiques[1]
            numeric == \A k \in 1..3 : call_args[k].k = "num"
        IN /\ c.clarity_score = call_args[1]
           /\ c.correctness_score = call_args[2]
           /\ c.grounding_score = call_args[3]
           /\ numeric =>
                /\ c.overall_score.k = "num"
                /\ 3 * c.overall_score.x = call_args[1].x + call_args[2].x + call_args[3].x
           /\ ~numeric => c.overall_score.k = "nan"

\* C16 witness: 7.0, 9.5 and 10.0 with 0.5 passed for overall_score
C16_Witness ==
    /\ pc = "critique_built"
    /\ call_args = <<F(Points(7)), F(Points(9) + 3), F(Points(10)), F(3)>>
    /\ critiques[1].overall_score = F(53)

\* C17 (as claimed): an MCQ whose correct_answer is not the label of its one
\* option flagged correct is not reported as properly formatted and is not
\* valid.  Fails: no check reads correct_answer; such an MCQ with sound
\* texts, four options and the labels A to D is properly formatted and valid.
C17_AnswerMatchesFlag ==
    pc = "validate_returned" =>
        \A n \in 1..Len(mcqs) :
            LET m == mcqs[n]
                v == validations[n]
                flagged == {k \in 1..Len(m.options) : m.options[k].is_correct}
            IN (/\ Cardinality(flagged) = 1
                /\ \A k \in flagged : m.options[k].label # m.correct_answer)
               => /\ ~v.is_properly_formatted
                  /\ ~(/\ v.status = "VALID"
                       /\ v.is_context_grounded
                       /\ v.is_properly_formatted
                       /\ v.has_required_metadata
                       /\ ~v.has_hallucination)

\* a float within [0, 10]
C18_InRange(x) == x.k = "num" /\ 0 <= x.x /\ x.x <= Points(10)

\* C18 (as claimed): every critique that critique_mcqs produces has its
\* three scores within [0, 10], whatever the service answers.  Fails: the
\* scores of the answer are converted with float() and stored as they are,
\* so 12, -1 and NaN end up in the critique.
C18_ScoresInRange ==
    \A n \in 1..Len(critiques) :
        /\ C18_InRange(critiques[n].clarity_score)
        /\ C18_InRange(critiques[n].correctness_score)
        /\ C18_InRange(critiques[n].grounding_score)

\* C19 (as claimed): two runs with the same query that receive the same
\* retrieval result and the same answers return the same result.  Fails: the
\* message for wrong option labels writes out a set of strings, whose order
\* is that of the string hash seed of the process.
C19_SameOutputsSameResult ==
    Len(results) = 2 => results[1] = results[2]

\* the positions of the fragments whose id, as a string, is that of the MCQ
C20_Matches(n) ==
    {m \in 1..Len(context_chunks) : PyStr(context_chunks[m].chunk_id) = mcqs[n].chunk_id}

\* C20: with a non-empty fragment list every critiqued MCQ had its service
\* call; the source of the call is the first fragment whose id equals the
\* id of the MCQ as a string, and the first fragment of the list when none
\* does; the critique is the one of the answer.
C20_FallsBackToFirstFragment ==
    context_chunks # <<>> =>
        \A n \in 1..Len(critiques) :
            /\ n <= Len(llm_log)
            /\ llm_log[n].stage = "critique"
            /\ llm_log[n].index = n - 1
            /\ \A m \in C20_Matches(n) :
                    (\A l \in C20_Matches(n) : m <= l) => llm_log[n].source = context_chunks[m]
            /\ C20_Matches(n) = {} => llm_log[n].source = context_chunks[1]
            /\ critiques[n] = ParseCritique(n - 1, mcqs[n], llm_log[n].response)
            /\ llm_log[n].response = C7_Nines =>
                    /\ critiques[n].grounding_score = F(Points(9))
                    /\ critiques[n].issues = <<"vague">>

\* C20 witness: the id of the first MCQ matches no fragment and its call
\* has the first fragment as source; the id of the second MCQ matches the
\* second fragment, which is the source of its call; both are answered
C20_Witness ==
    /\ pc = "critique_returned"
    /\ context_chunks = <<F1a, F0b>>
    /\ Len(mcqs) = 2
    /\ C20_Matches(1) = {}
    /\ C20_Matches(2) = {2}
    /\ llm_log[1].source = F1a
    /\ llm_log[2].source = F0b
    /\ llm_log[1].response = C7_Nines
    /\ critiques[1].grounding_score = F(Points(9))
    /\ critiques[2].mcq_index = 1

\* the critique at position n has this grounding score
C21_Grounding(n, x) == n <= Len(critiques) /\ critiques[n].grounding_score = F(x)

\* C21 (as claimed): a grounding score of 5.5 yields is_context_grounded
\* false and has_hallucination false; a grounding score of 4.0 yields both
\* is_context_grounded and has_hallucination true.  Fails on the second
\* half: 4.0 is below 6.0, so is_context_grounded is false.
C21_BothTrueAtFour ==
    pc = "validate_returned" =>
        \A n \in 1..Len(validations) :
            /\ C21_Grounding(n, Points(5) + 3) =>
                    ~validations[n].is_context_grounded /\ ~validations[n].has_hallucination
            /\ C21_Grounding(n, Points(4)) =>
                    validations[n].is_context_grounded /\ validations[n].has_hallucination

\* C21 (amended): a grounding score of 5.5 yields is_context_grounded false
\* and has_hallucination false; a grounding score of 4.0 yields
\* is_context_grounded false and has_hallucination true, with both errors
\* recorded.
C21_FlagsAtFiveHalfAndFour ==
    pc = "validate_returned" =>
        \A n \in 1..Len(validations) :
            LET v == validations[n]
                Has(msg) ==
                    \E k \in 1..Len(v.validation_errors) : v.validation_errors[k].msg = msg
            IN /\ C21_Grounding(n, Points(5) + 3) =>
                    /\ ~v.is_context_grounded
                    /\ ~v.has_hallucination
                    /\ Has("Low grounding score")
                    /\ ~Has("Potential hallucination detected")
               /\ C21_Grounding(n, Points(4)) =>
                    /\ ~v.is_context_grounded
                    /\ v.has_hallucination
                    /\ Has("Low grounding score")
                    /\ Has("Potential hallucination detected")

\* C21 witness: two MCQs validated, the first critiqued with a grounding
\* score of 5.5 and the second with 4.0
C21_Witness ==
    /\ pc = "validate_returned"
    /\ Len(validations) = 2
    /\ C21_Grounding(1, Points(5) + 3)
    /\ C21_Grounding(2, Points(4))
    /\ ~validations[1].has_hallucination
    /\ validations[2].has_hallucination
    /\ ~validations[2].is_context_grounded

\* C22: generate_mcqs called with an empty fragment list returns an empty
\* list and the service is not called, whatever the count and the
\* difficulty of the call.
C22_EmptyContextShortCircuits ==
    (pc = "generate_returned" /\ context_chunks = <<>>) =>
        /\ mcqs = <<>>
        /\ llm_log = <<>>

\* C22 witness: the call has returned on an empty fragment list, with a
\* count of 3 and a difficulty
C22_Witness ==
    /\ pc = "generate_returned"
    /\ context_chunks = <<>>
    /\ call_args.num_mcqs = 3
    /\ call_args.difficulty = JStr("hard")
    /\ mcqs = <<>>
    /\ llm_log = <<>>

\* the stages of a run, in the order of the data flow
C23_StageOrder == <<"retrieval", "generation", "critique", "validation", "aggregation">>

\* the stages that have been entered when the run is at this point
C23_StagesAt(at) ==
    CASE at = "start" -> 0
      [] at \in {"generating", "NO_CONTEXT"} -> 1
      [] at = "GENERATION_EMPTY" -> 2
      [] at = "critiquing" -> IF critiques = <<>> THEN 2 ELSE 3
      [] at = "validating" -> 3
      [] at \in {"validated", "RAISED"} -> 4
      [] OTHER -> 5

\* C23: the stages of a run are entered in the order retrieval, generation,
\* critique, validation, aggregation, each at most once and after the one
\* before it has returned; the fragment list is the one retrieval returned
\* and the MCQ list the one generation returned from then on, and every
\* step of critique and validation is computed from them; the service
\* calls are logged one at a time, a call being answered before the next.
C23_StagesStrictlySequential ==
    /\ [](stage_log = SubSeq(C23_StageOrder, 1, C23_StagesAt(pc)))
    /\ [][/\ pc # "start" => context_chunks' = context_chunks
          /\ pc \notin {"start", "generating"} => mcqs' = mcqs
          /\ pc = "critiquing" =>
                /\ Len(critiques') = Len(critiques) + 1
                /\ SubSeq(critiques', 1, Len(critiques)) = critiques
                /\ \E resp \in RunCritiqueResponses :
                      critiques'[Len(critiques')] =
                          CritiqueOne(Len(critiques), mcqs[Len(critiques) + 1],
                                      context_chunks, resp)
          /\ pc # "critiquing" => critiques' = critiques
          /\ (pc = "validating" /\ pc' = "validated") =>
                validations' = ValidateMcqs(mcqs, critiques, hash_seed')
          /\ pc' = "AGGREGATED" =>
                /\ result'.mcqs = mcqs /\ result'.critiques = critiques
                /\ result'.validations = validations
          /\ Len(llm_log') <= Len(llm_log) + 1
          /\ SubSeq(llm_log', 1, Len(llm_log)) = llm_log]_vars

\* C23 witness: a run that went through all five stages with two MCQs
C23_Witness ==
    /\ pc = "AGGREGATED"
    /\ stage_log = C23_StageOrder
    /\ Len(mcqs) = 2
    /\ Len(llm_log) = 3
    /\ result.validations = validations

\* the four flags of a validation are the ones of a valid MCQ
C24_FlagsGood(v) ==
    /\ v.is_context_grounded
    /\ v.is_properly_formatted
    /\ v.has_required_metadata
    /\ ~v.has_hallucination

\* C24: for every validation that validate_mcqs returns, the status is VALID
\* exactly when is_valid() holds; a VALID status comes with the four flags
\* of a valid MCQ, and the error list is empty exactly in that case.
C24_ValidStatusIffIsValid ==
    pc = "validate_returned" =>
        \A n \in 1..Len(validations) :
            LET v == validations[n] IN
            /\ v.status = "VALID" <=> IsValid(v)
            /\ v.status = "VALID" => C24_FlagsGood(v)
            /\ v.validation_errors = <<>> <=> C24_FlagsGood(v)

\* C24 witness: one VALID validation, one with a cleared grounding flag and
\* its error
C24_Witness ==
    /\ pc = "validate_returned"
    /\ Len(validations) = 2
    /\ validations[1].status = "VALID"
    /\ IsValid(validations[1])
    /\ validations[1].validation_errors = <<>>
    /\ validations[2].status = "NEEDS_REVISION"
    /\ ~validations[2].is_context_grounded
    /\ validations[2].is_properly_formatted
    /\ Len(validations[2].validation_errors) = 1

\* C25: in every result that a run returns, critiques, validations and mcqs
\* have the same length, the critique and the validation at position i
\* carry the index i, and the validation at position i reflects the MCQ and
\* the critique at position i: its grounding flags are those of the
\* grounding score of critiques[i] and its format flag that of mcqs[i].
C25_PositionalCorrelation ==
    Returned =>
        /\ Len(result.critiques) = Len(result.mcqs)
        /\ Len(result.validations) = Len(result.mcqs)
        /\ \A n \in 1..Len(result.mcqs) :
            LET c == result.critiques[n]
                v == result.validations[n]
            IN /\ c.mcq_index = n - 1
               /\ v.mcq_index = n - 1
               /\ v.is_context_grounded <=> ~FLt(c.grounding_score, F(Points(6)))
               /\ v.has_hallucination <=> FLt(c.grounding_score, F(Points(5)))
               /\ v.is_properly_formatted <=> CheckFormat(result.mcqs[n], hash_seed)
               /\ v.has_required_metadata <=> CheckMetadata(result.mcqs[n])

\* C25 witness: a returned result with two MCQs whose critiques differ, the
\* first grounded and the second not
C25_Witness ==
    /\ pc = "AGGREGATED"
    /\ Len(result.mcqs) = 2
    /\ result.critiques[1].grounding_score = F(Points(9))
    /\ result.critiques[2].grounding_score = F(Points(4))
    /\ result.validations[1].is_context_grounded
    /\ ~result.validations[2].is_context_grounded
    /\ result.validations[2].mcq_index = 1

\* C26: critique_mcqs called with an empty fragment list gives every MCQ the
\* default critique (5.0, 5.0, grounding 0.0, the difficulty of the MCQ, the
\* issue that the source context could not be found) and makes no service
\* call during the pass.
C26_NoFragmentsNoCalls ==
    context_chunks = <<>> =>
        /\ llm_log = <<>>
        /\ pc = "critique_returned" => Len(critiques) = Len(mcqs)
        /\ \A n \in 1..Len(critiques) :
            /\ critiques[n].mcq_index = n - 1
            /\ critiques[n].clarity_score = F(Points(5))
            /\ critiques[n].correctness_score = F(Points(5))
            /\ critiques[n].grounding_score = F(0)
            /\ critiques[n].difficulty_assessment = mcqs[n].difficulty
            /\ critiques[n].issues = <<"Could not find source context for verification">>

\* C26 witness: two MCQs critiqued without fragments
C26_Witness ==
    /\ pc = "critique_returned"
    /\ context_chunks = <<>>
    /\ Len(mcqs) = 2
    /\ Len(critiques) = 2
    /\ critiques[2].grounding_score = F(0)
    /\ critiques[2].mcq_index = 1
    /\ llm_log = <<>>

\* the fragment the claim attributes an item to: the one at the declared
\* chunk_index when that is within 0..len(fragments)-1, else the first
C27_Resolved(item) ==
    LET idx == item.chunk_index IN
    IF idx.t = "int" /\ 0 <= idx.n /\ idx.n < Len(context_chunks)
    THEN context_chunks[idx.n + 1]
    ELSE context_chunks[1]

\* C27 (as claimed): every MCQ that generate_mcqs builds from an item takes
\* its chunk_id, source_filename and context_snippet from the fragment at
\* the declared chunk_index when that is within 0..len(fragments)-1, and
\* from the first fragment otherwise.  Fails: a negative chunk_index from
\* -len(fragments) to -1 passes the test chunk_idx < len(context_chunks) and
\* indexes the list from its end.
C27_AttributedToDeclaredOrFirst ==
    (pc = "generate_returned" /\ llm_log # <<>> /\ C6_IsArray(llm_log[1].response)) =>
        \A n \in 1..Len(mcqs) :
            LET item == C6_Items(llm_log[1].response)[n]
                chunk == C27_Resolved(item)
            IN /\ mcqs[n].chunk_id = PyStr(chunk.chunk_id)
               /\ mcqs[n].source_filename = chunk.source
               /\ mcqs[n].context_snippet = Snippet(chunk.text)

\* C28: the number of service calls of a run follows from its outcome: none
\* when it ends in NO_CONTEXT, one (the generation prompt) when it ends in
\* GENERATION_EMPTY, and 1 + n when it is AGGREGATED with n MCQs: the
\* generation prompt, then one critique prompt per MCQ in the order of the
\* MCQs, a failed call included and not repeated.
C28_CallCountByOutcome ==
    /\ pc = "NO_CONTEXT" => llm_log = <<>>
    /\ pc = "GENERATION_EMPTY" =>
        /\ Len(llm_log) = 1
        /\ llm_log[1].stage = "generation"
    /\ pc \in {"validating", "validated", "RAISED", "AGGREGATED"} =>
        /\ Len(llm_log) = 1 + Len(mcqs)
        /\ llm_log[1].stage = "generation"
        /\ \A k \in 2..Len(llm_log) :
            /\ llm_log[k].stage = "critique"
            /\ llm_log[k].index = k - 2
    /\ pc = "AGGREGATED" => Len(llm_log) = 1 + Len(result.mcqs)

\* C28 witness: an aggregated run of two MCQs whose first critique call
\* failed: three calls
C28_Witness ==
    /\ pc = "AGGREGATED"
    /\ Len(result.mcqs) = 2
    /\ Len(llm_log) = 3
    /\ llm_log[2].response = ServiceError
    /\ llm_log[3].index = 1

\* C29 (as claimed): the fragment a critique call is given as source is the
\* one generation resolved for the MCQ, whose id, source and snippet the
\* MCQ records.  Fails: critique looks the fragment up by the id alone and
\* takes the first match, so with two fragments of the same id (chunk 0 of
\* two documents) an MCQ written from the second is critiqued against the
\* first.
C29_CritiqueUsesGenerationSource ==
    \A k \in 1..Len(llm_log) :
        llm_log[k].stage = "critique" =>
            LET mcq == mcqs[llm_log[k].index + 1]
                chunk == llm_log[k].source
            IN /\ PyStr(chunk.chunk_id) = mcq.chunk_id
               /\ chunk.source = mcq.source_filename
               /\ Snippet(chunk.text) = mcq.context_snippet

\* C30: an MCQ whose critique call failed carries the critique 7.0, 7.0, 7.0
\* with an overall score of 7.0, and validation never gives it the status
\* INVALID: it is grounded and free of hallucination, VALID when it passes
\* the format and metadata checks and NEEDS_REVISION when it does not.
C30_FailedCritiqueNeverInvalid ==
    \A k \in 1..Len(llm_log) :
        (llm_log[k].stage = "critique" /\ llm_log[k].response \in C7_Failing) =>
            LET n == llm_log[k].index + 1 IN
            /\ critiques[n].grounding_score = F(Points(7))
            /\ critiques[n].overall_score = F(Points(7))
            /\ n <= Len(validations) =>
                LET v == validations[n] IN
                /\ v.status # "INVALID"
                /\ v.is_context_grounded
                /\ ~v.has_hallucination
                /\ v.status = IF v.is_properly_formatted /\ v.has_required_metadata
                              THEN "VALID" ELSE "NEEDS_REVISION"

\* C30 witness: both critique calls of a run failed; the first MCQ passes
\* the checks and is VALID, the second does not and is NEEDS_REVISION
C30_Witness ==
    /\ pc = "AGGREGATED"
    /\ Len(llm_log) = 3
    /\ llm_log[2].response = ServiceError
    /\ llm_log[3].response = Text(<<Prose>>)
    /\ validations[1].status = "VALID"
    /\ validations[2].status = "NEEDS_REVISION"
    /\ ~validations[2].is_properly_formatted

====
